---- MODULE Spec2Model ----
(***************************************************************************)
(* Model of the concurrent acquisition-and-compression pipeline of         *)
(* MusicDownloads: the two thread pools of src/src/ConcurrentTasks.py, the *)
(* identity resolver and the retry loop of src/src/FileCompression.py, and *)
(* the catalog fetch and the download retry loop of                        *)
(* src/src/NetworkOperations.py, the conversion step of                    *)
(* src/src/DataProcessing.py and main of src/src/ProgramEntrance.py.       *)
(*                                                                         *)
(* Spec          one call of concurrent_process or concurrent_compression *)
(*               (Init draws which one, and its inputs).                   *)
(* SpecCompress  one call of AudioCompressor.compress, stage by stage.     *)
(* SpecDownload  one call of download_video, attempt by attempt.           *)
(* SpecCrawl     one call of crawl_favorites, attempt by attempt.          *)
(* SpecRetry     one call of any of the three retry loops.                 *)
(* SpecHang      concurrent_process when ffmpeg may never exit (fair).     *)
(* SpecDangling  concurrent_compression over unreadable directory entries. *)
(* SpecInterrupt a pool run in which KeyboardInterrupt may arrive.         *)
(* SpecRerun     concurrent_compression run again over the same            *)
(*               directories.                                              *)
(* SpecShared    concurrent_process with or without a cover in the track   *)
(*               label.                                                    *)
(* SpecMain      one run of main, from path_initialization to the pools.   *)
(* SpecTasks     the compression pool with the AudioCompressor, browser    *)
(*               session and timeout table of every task.                  *)
(* SpecConvert   one call of download_processing, run by run of ffmpeg.    *)
(***************************************************************************)
EXTENDS Integers, Sequences, FiniteSets, TLC

VARIABLES
    call,           \* which pool function this run calls
    cpu_count,      \* os.cpu_count(); 0 stands for None
    url_list,       \* config["url_list"], by its length
    name_list,      \* config["name_list"]
    input_valid,    \* os.path.isdir(input_path)
    output_valid,   \* os.path.isdir(output_path)
    inputDir,       \* listing of input_path: sequence of file contents
    outputDir,      \* output_path of the compression pool: name -> content
    musicDir,       \* output_path of the acquisition pool: set of file names
    existing_ids,   \* concurrent_compression's existing_ids
    pcMain,         \* position of the calling thread
    idx,            \* index of the submit loop
    futures,        \* list of submitted tasks
    queue,          \* work queue of the executor
    threads,        \* worker threads the executor has started
    tpc,            \* per task: position of the task
    tout,           \* per task: what its steps produced
    scratch,        \* scratch directories that exist: name -> owning task
    collected,      \* futures as_completed has yielded
    failed,         \* the pool function's failed counter
    result,         \* the pool function's return value
    cmp,            \* one AudioCompressor and its compress call
    dl,             \* one download_video call
    cr,             \* one crawl_favorites call
    track_information, \* the mapping config["track_information"]
    writers,        \* tasks that assigned into track_information
    mn,             \* one run of main
    tk,             \* the AudioCompressor objects of the compression tasks
    cv,             \* one download_processing call
    rs,             \* one call of the identity resolver
    tg,             \* one file under audio_track_processing
    dc              \* one data_classification call

poolVars == <<call, cpu_count, url_list, name_list, input_valid, output_valid,
              inputDir, outputDir, musicDir, existing_ids, pcMain, idx,
              futures, queue, threads, tpc, tout, scratch, collected, failed,
              result, track_information, writers>>

sharedVars == <<track_information, writers>>

detailVars == <<cmp, dl, cr, mn, tk, cv, rs, tg, dc>>

vars == <<poolVars, detailVars>>

----------------------------------------------------------------------------
(* Bounds of the model *)

MaxItems == 2
MaxFiles == 4

----------------------------------------------------------------------------
(* Pure helpers *)

Min(a, b) == IF a <= b THEN a ELSE b

\* A Python bool, as the value a function returned.
PyBool(b) == IF b THEN "True" ELSE "False"

Digit == <<"0", "1", "2", "3", "4", "5", "6", "7", "8", "9">>

RECURSIVE IntToStr(_)
IntToStr(n) ==
    IF n < 10 THEN Digit[n + 1]
    ELSE IntToStr(n \div 10) \o Digit[(n % 10) + 1]

----------------------------------------------------------------------------
(* Files and the identity resolver (FileCompression.py) *)

\* A file, as the identity resolver sees it: whether it has an ID3 header,
\* the texts of its TIT3 frames, and its size in bytes.
\* Input files: one without an ID3 header, one with a header and no TIT3.
InputContents ==
    { [header |-> FALSE, tit3 |-> <<>>, size |-> 7],
      [header |-> TRUE,  tit3 |-> <<>>, size |-> 8] }

\* A file of an earlier run in the output directory: it carries a TIT3 text.
ExistingContents ==
    { [header |-> TRUE, tit3 |-> <<"7">>, size |-> 9] }

\* The bytes compression takes off a file.
CompressionGain == 5

\* The file a successful compression copies into the output directory:
\* what the service made of the input f.  No line of the program writes a
\* tag on it; the service is taken to keep the ID3 frames of f and to
\* return fewer bytes.
Artifact(f) ==
    [header |-> f.header, tit3 |-> f.tit3, size |-> f.size - CompressionGain]

\* The size of a directory entry that cannot be opened or stat'ed (a
\* dangling symbolic link, a file removed after os.listdir listed it).
NoSize == -1

Dangling == [header |-> FALSE, tit3 |-> <<>>, size |-> NoSize]

\* What get_file_identifier gives when an exception leaves it.
Raised == "raised"

\* The identifier taken from the last TIT3 frame.
get_file_identifier_last(f) ==
    IF f.size = NoSize THEN Raised
    ELSE IF ~f.header THEN IntToStr(f.size)
    ELSE IF Len(f.tit3) = 0 THEN IntToStr(f.size)
    ELSE f.tit3[Len(f.tit3)]

\* AudioCompressor.get_file_identifier: ID3(file_path) raises
\* ID3NoHeaderError without a header, getall("TIT3")[0] raises IndexError
\* without a TIT3 frame; both handlers return str(os.path.getsize(...)).
\* For an entry that cannot be opened ID3 raises, and os.path.getsize,
\* called in the handler, raises too: that exception leaves the function.
get_file_identifier(f) ==
    IF f.size = NoSize THEN Raised
    ELSE IF ~f.header THEN IntToStr(f.size)
    ELSE IF Len(f.tit3) = 0 THEN IntToStr(f.size)
    ELSE f.tit3[1]

\* The identifiers of a directory when the TIT3 text is not looked at.
get_existing_identifiers_by_size(dir) ==
    { IntToStr(dir[n].size) : n \in DOMAIN dir }

\* AudioCompressor.get_existing_identifiers: an entry whose identifier
\* cannot be got is logged and left out (lines 166-170).
get_existing_identifiers(dir) ==
    { get_file_identifier(dir[n]) :
        n \in { k \in DOMAIN dir : get_file_identifier(dir[k]) # Raised } }

----------------------------------------------------------------------------
(* The executor (ThreadPoolExecutor) shared by both pools *)

CpuCounts == {0, 1, 2}
VideoNames == {"a", "b"}

AcquisitionCap == 10
UnknownCpuWorkers == 5

\* A pool of the size of the acquisition pool's cap.
CompressionWorkersTen == AcquisitionCap

\* concurrent_compression: ThreadPoolExecutor(max_workers=3)
CompressionWorkers == 3

\* The worker count when the CPU count is not taken into account.
AcquisitionWorkersNoCpu(cpu) == AcquisitionCap

\* concurrent_process: max_workers = min(10, os.cpu_count() or 5)
AcquisitionWorkers(cpu) ==
    Min(AcquisitionCap, IF cpu = 0 THEN UnknownCpuWorkers ELSE cpu)

max_workers ==
    IF call = "process" THEN AcquisitionWorkers(cpu_count)
    ELSE CompressionWorkers

Tasks == 1..(IF MaxItems > MaxFiles THEN MaxItems ELSE MaxFiles)

RunningPcs == {"scratch", "downloaded", "converted", "tagged", "raising",
               "constructed", "blocked"}
DonePcs == {"done", "raised"}

Running == { t \in Tasks : tpc[t] \in RunningPcs }
Done == { t \in Tasks : tpc[t] \in DonePcs }
Submitted == { futures[i] : i \in 1..Len(futures) }

\* executor.submit: the work item is queued, and a worker thread is started
\* when no started thread is idle and fewer than max_workers are started.
ExecutorSubmit(t) ==
    /\ queue' = Append(queue, t)
    /\ futures' = Append(futures, t)
    /\ tpc' = [tpc EXCEPT ![t] = "queued"]
    /\ threads' = IF threads - Cardinality(Running) > Len(queue)
                     \/ threads >= max_workers
                  THEN threads ELSE threads + 1

\* A worker thread takes the oldest work item when it runs no task.
WorkerFree == queue # <<>> /\ Cardinality(Running) < threads

\* The detailed models are at rest while a pool function is modelled.
CmpIdle == [pc |-> "idle"]
DlIdle == [pc |-> "idle"]
CrIdle == [pc |-> "idle"]
MnIdle == [pc |-> "idle"]
TkIdle == [pc |-> "idle"]
CvIdle == [pc |-> "idle"]
RsIdle == [pc |-> "idle"]
TgIdle == [pc |-> "idle"]
DcIdle == [pc |-> "idle"]

\* ProgramEntrance.py, lines 52-58: the default track label; it has no
\* cover.
track_label == [Artist |-> "EOZT"]

\* ConfigurationFile.py, lines 71-78: the configured track label, with the
\* path of a cover image.
Track_Information == [Artist |-> "EOZT", Cover |-> "logo.png"]

\* ProgramEntrance.py, line 97: the mapping every acquisition task is handed.
TrackLabels == {track_label, Track_Information}

\* str(value) of a label value; the values are strings already.
str(v) == v

NoOutcome == [dl |-> "none", art |-> "none", conv |-> "none", res |-> "none"]

\* as_completed yields every future once, when its task has finished;
\* future.result() re-raises what the task raised.
AsCompleted(t) ==
    /\ pcMain = "collect"
    /\ t \in Submitted \ collected
    /\ tpc[t] \in DonePcs
    /\ collected' = collected \cup {t}
    /\ failed' = IF tpc[t] = "raised" THEN failed + 1 ELSE failed

\* The loop ends at the first failure.
AllCollectedOrFailed == collected = Submitted \/ failed > 0

\* The as_completed loop ends when every future has been yielded.
AllCollected == collected = Submitted

----------------------------------------------------------------------------
(* concurrent_process: the acquisition pool *)

AfterSubmit(i, n) == IF i > n THEN "collect" ELSE "submit"

\* Lines 60-87: the checks before the pool is opened.
ProcessValidate ==
    /\ call = "process"
    /\ pcMain = "start"
    /\ IF \/ ~output_valid
          \/ Len(url_list) # Len(name_list)
          \/ Len(url_list) = 0
       THEN /\ result' = "False"
            /\ pcMain' = "returned"
       ELSE /\ pcMain' = "submit"
            /\ UNCHANGED result
    /\ UNCHANGED detailVars
    /\ UNCHANGED sharedVars
    /\ UNCHANGED <<call, cpu_count, url_list, name_list, input_valid,
                   output_valid, inputDir, outputDir, musicDir, existing_ids,
                   idx, futures, queue, threads, tpc, tout, scratch,
                   collected, failed>>

\* Lines 90-104: one iteration of the submit loop.
ProcessSubmit ==
    /\ call = "process"
    /\ pcMain = "submit"
    /\ idx <= Len(url_list)
    /\ ExecutorSubmit(idx)
    /\ idx' = idx + 1
    /\ pcMain' = AfterSubmit(idx + 1, Len(url_list))
    /\ UNCHANGED detailVars
    /\ UNCHANGED sharedVars
    /\ UNCHANGED <<call, cpu_count, url_list, name_list, input_valid,
                   output_valid, inputDir, outputDir, musicDir, existing_ids,
                   tout, scratch, collected, failed, result>>

\* Lines 106-111: one iteration of the as_completed loop.
ProcessCollect(t) ==
    /\ call = "process"
    /\ AsCompleted(t)
    /\ UNCHANGED detailVars
    /\ UNCHANGED sharedVars
    /\ UNCHANGED <<call, cpu_count, url_list, name_list, input_valid,
                   output_valid, inputDir, outputDir, musicDir, existing_ids,
                   pcMain, idx, futures, queue, threads, tpc, tout, scratch,
                   result>>

\* Line 113, and the executor's shutdown(wait=True) on leaving the with block.
ProcessReturn ==
    /\ call = "process"
    /\ pcMain = "collect"
    /\ AllCollected
    /\ result' = PyBool(failed = 0)
    /\ pcMain' = "returned"
    /\ UNCHANGED detailVars
    /\ UNCHANGED sharedVars
    /\ UNCHANGED <<call, cpu_count, url_list, name_list, input_valid,
                   output_valid, inputDir, outputDir, musicDir, existing_ids,
                   idx, futures, queue, threads, tpc, tout, scratch,
                   collected, failed>>

----------------------------------------------------------------------------
(* process_video_download: one acquisition pipeline *)

ScratchNames == Tasks

\* tempfile.TemporaryDirectory(): a directory under a name no existing
\* directory has.  Names are interchangeable; the least unused one is taken.
mkdtemp == CHOOSE d \in ScratchNames :
               /\ scratch[d] = 0
               /\ \A e \in ScratchNames : scratch[e] = 0 => d <= e

ScratchOf(t) == { d \in ScratchNames : scratch[d] = t }

\* The directory is removed only when the block is left normally.
cleanupOnSuccess(t) ==
    [d \in ScratchNames |->
        IF scratch[d] = t /\ tpc[t] # "raising" THEN 0 ELSE scratch[d]]

\* TemporaryDirectory.__exit__: the task's directory is removed.
cleanup(t) == [d \in ScratchNames |-> IF scratch[d] = t THEN 0 ELSE scratch[d]]

\* Lines 28-45: a worker starts the task; the five keys are always present
\* in the config concurrent_process builds; the with block is entered.
PvdEnter(t) ==
    /\ call = "process"
    /\ WorkerFree
    /\ t = Head(queue)
    /\ queue' = Tail(queue)
    /\ scratch' = [scratch EXCEPT ![mkdtemp] = t]
    /\ tpc' = [tpc EXCEPT ![t] = "scratch"]
    /\ UNCHANGED detailVars
    /\ UNCHANGED sharedVars
    /\ UNCHANGED <<call, cpu_count, url_list, name_list, input_valid,
                   output_valid, inputDir, outputDir, musicDir, existing_ids,
                   pcMain, idx, futures, threads, tout, collected, failed,
                   result>>

\* Line 46: download_video returns None whether the download succeeded or
\* its retries were exhausted; a failed download may leave a partial file.
PvdDownload(t) ==
    /\ call = "process"
    /\ tpc[t] = "scratch"
    /\ \E o \in {<<"ok", "video">>, <<"exhausted", "none">>,
                 <<"exhausted", "partial">>} :
           tout' = [tout EXCEPT ![t].dl = o[1], ![t].art = o[2]]
    /\ tpc' = [tpc EXCEPT ![t] = "downloaded"]
    /\ UNCHANGED detailVars
    /\ UNCHANGED sharedVars
    /\ UNCHANGED <<call, cpu_count, url_list, name_list, input_valid,
                   output_valid, inputDir, outputDir, musicDir, existing_ids,
                   pcMain, idx, futures, queue, threads, scratch, collected,
                   failed, result>>

\* Line 47: download_processing converts what the scratch directory holds
\* into output_path and removes the source; subprocess.run and os.remove
\* are outside any try, so an OSError leaves the function.
PvdDownloadProcessing(t) ==
    /\ call = "process"
    /\ tpc[t] = "downloaded"
    /\ IF tout[t].art = "none"
       THEN /\ tout' = [tout EXCEPT ![t].conv = "noop"]
            /\ tpc' = [tpc EXCEPT ![t] = "converted"]
            /\ UNCHANGED musicDir
       ELSE \/ /\ tout' = [tout EXCEPT ![t].conv = "ok", ![t].art = "none"]
               /\ tpc' = [tpc EXCEPT ![t] = "converted"]
               /\ musicDir' = musicDir \cup {name_list[t]}
            \/ /\ tout' = [tout EXCEPT ![t].conv = "failed",
                                       ![t].art = "none"]
               /\ tpc' = [tpc EXCEPT ![t] = "converted"]
               /\ UNCHANGED musicDir
            \/ /\ tout' = [tout EXCEPT ![t].conv = "raised"]
               /\ tpc' = [tpc EXCEPT ![t] = "raising"]
               /\ UNCHANGED musicDir
    /\ UNCHANGED detailVars
    /\ UNCHANGED sharedVars
    /\ UNCHANGED <<call, cpu_count, url_list, name_list, input_valid,
                   output_valid, inputDir, outputDir, existing_ids,
                   pcMain, idx, futures, queue, threads, scratch, collected,
                   failed, result>>

\* AudioTrackProcessing.py, lines 36-63: the task assigns into the mapping
\* it was handed once the audio file has loaded and the cover was read.
TagWrites(t) ==
    /\ name_list[t] \in musicDir
    /\ "Cover" \in DOMAIN track_information

\* Line 48: audio_track_processing; it logs and returns on every failure.
PvdAudioTrack(t) ==
    /\ call = "process"
    /\ tpc[t] = "converted"
    /\ tpc' = [tpc EXCEPT ![t] = "tagged"]
    /\ IF TagWrites(t)
       THEN /\ track_information' =
                   [k \in DOMAIN track_information |->
                       str(track_information[k])]
            /\ writers' = writers \cup {t}
       ELSE UNCHANGED sharedVars
    /\ UNCHANGED detailVars
    /\ UNCHANGED <<call, cpu_count, url_list, name_list, input_valid,
                   output_valid, inputDir, outputDir, musicDir, existing_ids,
                   pcMain, idx, futures, queue, threads, tout, scratch,
                   collected, failed, result>>

\* Line 45: leaving the with block, normally or by an exception.
PvdExit(t) ==
    /\ call = "process"
    /\ tpc[t] \in {"tagged", "raising"}
    /\ scratch' = cleanup(t)
    /\ tpc' = [tpc EXCEPT ![t] = IF tpc[t] = "raising" THEN "raised"
                                 ELSE "done"]
    /\ UNCHANGED detailVars
    /\ UNCHANGED sharedVars
    /\ UNCHANGED <<call, cpu_count, url_list, name_list, input_valid,
                   output_valid, inputDir, outputDir, musicDir, existing_ids,
                   pcMain, idx, futures, queue, threads, tout, collected,
                   failed, result>>

----------------------------------------------------------------------------
(* concurrent_compression: the compression pool *)

\* Lines 156-168: the checks, then existing_ids is computed once.
CompressionValidate ==
    /\ call = "compression"
    /\ pcMain = "start"
    /\ IF ~input_valid \/ ~output_valid
       THEN /\ result' = "False"
            /\ pcMain' = "returned"
            /\ UNCHANGED existing_ids
       ELSE /\ existing_ids' = get_existing_identifiers(outputDir)
            /\ pcMain' = AfterSubmit(1, Len(inputDir))
            /\ UNCHANGED result
    /\ UNCHANGED detailVars
    /\ UNCHANGED sharedVars
    /\ UNCHANGED <<call, cpu_count, url_list, name_list, input_valid,
                   output_valid, inputDir, outputDir, musicDir, idx, futures,
                   queue, threads, tpc, tout, scratch, collected, failed>>

\* Line 175: is the candidate already represented in the output directory?
AlreadyCompressed(file_id) == file_id \in existing_ids

\* Lines 171-187: one iteration of the submit loop over os.listdir.
CompressionSubmit ==
    /\ call = "compression"
    /\ pcMain = "submit"
    /\ idx <= Len(inputDir)
    /\ get_file_identifier(inputDir[idx]) # Raised
    /\ IF AlreadyCompressed(get_file_identifier(inputDir[idx]))
       THEN /\ tpc' = [tpc EXCEPT ![idx] = "skipped"]
            /\ UNCHANGED <<queue, futures, threads>>
       ELSE ExecutorSubmit(idx)
    /\ idx' = idx + 1
    /\ pcMain' = AfterSubmit(idx + 1, Len(inputDir))
    /\ UNCHANGED detailVars
    /\ UNCHANGED sharedVars
    /\ UNCHANGED <<call, cpu_count, url_list, name_list, input_valid,
                   output_valid, inputDir, outputDir, musicDir, existing_ids,
                   tout, scratch, collected, failed, result>>

\* Lines 193-198: one iteration of the as_completed loop; the value
\* future.result() returns is not looked at.
CompressionCollect(t) ==
    /\ call = "compression"
    /\ AsCompleted(t)
    /\ UNCHANGED detailVars
    /\ UNCHANGED sharedVars
    /\ UNCHANGED <<call, cpu_count, url_list, name_list, input_valid,
                   output_valid, inputDir, outputDir, musicDir, existing_ids,
                   pcMain, idx, futures, queue, threads, tpc, tout, scratch,
                   result>>

\* Line 200, and the executor's shutdown(wait=True).
CompressionReturn ==
    /\ call = "compression"
    /\ pcMain = "collect"
    /\ AllCollected
    /\ result' = PyBool(failed = 0)
    /\ pcMain' = "returned"
    /\ UNCHANGED detailVars
    /\ UNCHANGED sharedVars
    /\ UNCHANGED <<call, cpu_count, url_list, name_list, input_valid,
                   output_valid, inputDir, outputDir, musicDir, existing_ids,
                   idx, futures, queue, threads, tpc, tout, scratch,
                   collected, failed>>

----------------------------------------------------------------------------
(* compress_task: one compression task *)

\* Line 128: a worker starts the task and builds its AudioCompressor; the
\* constructor (it creates a temporary directory) is outside the try, so
\* what it raises leaves compress_task.
CompressTaskEnter(t) ==
    /\ call = "compression"
    /\ WorkerFree
    /\ t = Head(queue)
    /\ queue' = Tail(queue)
    /\ \E ok \in BOOLEAN :
           tpc' = [tpc EXCEPT ![t] = IF ok THEN "constructed" ELSE "raised"]
    /\ UNCHANGED detailVars
    /\ UNCHANGED sharedVars
    /\ UNCHANGED <<call, cpu_count, url_list, name_list, input_valid,
                   output_valid, inputDir, outputDir, musicDir, existing_ids,
                   pcMain, idx, futures, threads, tout, scratch, collected,
                   failed, result>>

\* What compress ends with, as compress_task sees it.
CompressOutcomes == {"True", "False", "Exception"}

\* compress_task without its except clause.
compress_task_uncaught(o) ==
    IF o = "Exception" THEN [pc |-> "raised", res |-> "none"]
    ELSE [pc |-> "done", res |-> o]

\* Lines 130-138: compress_task returns what compress returned; an
\* exception of compress is caught and logged, and False is returned.
compress_task_result(o) ==
    IF o = "Exception" THEN [pc |-> "done", res |-> "False"]
    ELSE [pc |-> "done", res |-> o]

\* Lines 130-141: compress returns True after copying the artifact into the
\* output directory under the input's name, or False, or raises.
CompressTaskRun(t) ==
    /\ call = "compression"
    /\ tpc[t] = "constructed"
    /\ \E o \in CompressOutcomes :
          /\ tout' = [tout EXCEPT ![t].res = compress_task_result(o).res]
          /\ tpc' = [tpc EXCEPT ![t] = compress_task_result(o).pc]
          /\ outputDir' = IF o = "True"
                          THEN [n \in DOMAIN outputDir \cup {t} |->
                                   IF n = t THEN Artifact(inputDir[t])
                                   ELSE outputDir[n]]
                          ELSE outputDir
    /\ UNCHANGED detailVars
    /\ UNCHANGED sharedVars
    /\ UNCHANGED <<call, cpu_count, url_list, name_list, input_valid,
                   output_valid, inputDir, musicDir, existing_ids,
                   pcMain, idx, futures, queue, threads, scratch, collected,
                   failed, result>>

----------------------------------------------------------------------------
(* The output files of the tasks *)

\* The name of the file task t writes in the output directory: an
\* acquisition task the file named after its video_name (download_processing
\* names the converted file after the downloaded one), a compression task
\* the file named after its input file, here its place in the listing.
OutputOf(t) == IF call = "process" THEN name_list[t] ELSE t

\* Task t has written its output file.
Wrote(t) == IF call = "process" THEN tout[t].conv = "ok"
            ELSE tout[t].res = "True"

----------------------------------------------------------------------------
(* One call of a pool function *)

SeqsUpTo(S, n) == UNION { [1..k -> S] : k \in 0..n }

\* os.listdir lists the entries in arbitrary order and the loop treats every
\* position alike, so one order of each directory is taken: by size.
Listings(n) ==
    { s \in SeqsUpTo(InputContents, n) :
        \A i \in 1..Len(s), j \in 1..Len(s) :
            i < j => s[i].size <= s[j].size }

\* The titles of the catalog items.  The program treats every title alike,
\* so the first item is given the title "a"; later items repeat it or not.
NameLists(n) ==
    { s \in SeqsUpTo(VideoNames, n) : Len(s) > 0 => s[1] = "a" }

\* The output directory before the run: empty, or one earlier file.
InitialOutputs ==
    {<<>>} \cup { [n \in {0} |-> c] : c \in ExistingContents }

InitCommon ==
    /\ cmp = CmpIdle
    /\ dl = DlIdle
    /\ cr = CrIdle
    /\ existing_ids = {}
    /\ pcMain = "start"
    /\ idx = 1
    /\ futures = <<>>
    /\ queue = <<>>
    /\ threads = 0
    /\ tpc = [t \in Tasks |-> "pending"]
    /\ tout = [t \in Tasks |-> NoOutcome]
    /\ scratch = [d \in ScratchNames |-> 0]
    /\ collected = {}
    /\ failed = 0
    /\ result = "none"
    /\ writers = {}
    /\ mn = MnIdle
    /\ tk = TkIdle
    /\ cv = CvIdle
    /\ rs = RsIdle
    /\ tg = TgIdle
    /\ dc = DcIdle

InitProcess ==
    /\ call = "process"
    /\ cpu_count \in CpuCounts
    /\ url_list \in { [i \in 1..k |-> "BV"] : k \in 0..MaxItems }
    /\ name_list \in NameLists(MaxItems)
    /\ input_valid = TRUE
    /\ output_valid \in BOOLEAN
    /\ inputDir = <<>>
    /\ outputDir = <<>>
    /\ musicDir = {}
    /\ track_information = track_label

InitCompression ==
    /\ call = "compression"
    /\ cpu_count = 0
    /\ url_list = <<>>
    /\ name_list = <<>>
    /\ input_valid \in BOOLEAN
    /\ output_valid \in BOOLEAN
    /\ inputDir \in Listings(MaxFiles)
    /\ outputDir \in InitialOutputs
    /\ musicDir = {}
    /\ track_information = track_label

Init == InitCommon /\ (InitProcess \/ InitCompression)

Next ==
    \/ ProcessValidate
    \/ ProcessSubmit
    \/ \E t \in Tasks : ProcessCollect(t)
    \/ ProcessReturn
    \/ \E t \in Tasks : PvdEnter(t)
    \/ \E t \in Tasks : PvdDownload(t)
    \/ \E t \in Tasks : PvdDownloadProcessing(t)
    \/ \E t \in Tasks : PvdAudioTrack(t)
    \/ \E t \in Tasks : PvdExit(t)
    \/ CompressionValidate
    \/ CompressionSubmit
    \/ \E t \in Tasks : CompressionCollect(t)
    \/ CompressionReturn
    \/ \E t \in Tasks : CompressTaskEnter(t)
    \/ \E t \in Tasks : CompressTaskRun(t)

Spec == Init /\ [][Next]_vars

\* The steps of each pool function and of its tasks.
NextProcess ==
    \/ ProcessValidate
    \/ ProcessSubmit
    \/ \E t \in Tasks : ProcessCollect(t)
    \/ ProcessReturn
    \/ \E t \in Tasks : PvdEnter(t)
    \/ \E t \in Tasks : PvdDownload(t)
    \/ \E t \in Tasks : PvdDownloadProcessing(t)
    \/ \E t \in Tasks : PvdAudioTrack(t)
    \/ \E t \in Tasks : PvdExit(t)

NextCompression ==
    \/ CompressionValidate
    \/ CompressionSubmit
    \/ \E t \in Tasks : CompressionCollect(t)
    \/ CompressionReturn
    \/ \E t \in Tasks : CompressTaskEnter(t)
    \/ \E t \in Tasks : CompressTaskRun(t)

----------------------------------------------------------------------------
(* concurrent_process with the track label of either configuration *)

InitShared ==
    /\ InitCommon
    /\ call = "process"
    /\ cpu_count \in CpuCounts
    /\ url_list \in { [i \in 1..k |-> "BV"] : k \in 0..MaxItems }
    /\ name_list \in NameLists(MaxItems)
    /\ input_valid = TRUE
    /\ output_valid = TRUE
    /\ inputDir = <<>>
    /\ outputDir = <<>>
    /\ musicDir = {}
    /\ track_information \in TrackLabels

SpecShared == InitShared /\ [][NextProcess]_vars

----------------------------------------------------------------------------
(* An acquisition run in which an external tool may never respond *)

\* DataProcessing.py, lines 262-268: subprocess.run(ffmpeg_command, ...) is
\* called without a timeout, so when ffmpeg never exits the call never
\* returns and the task stays where it is.  (download_video passes
\* timeout=timeout: a you-get that never exits ends in TimeoutExpired, one
\* of the failures of PvdDownload.)
PvdConversionHangs(t) ==
    /\ call = "process"
    /\ tpc[t] = "downloaded"
    /\ tout[t].art # "none"
    /\ tout' = [tout EXCEPT ![t].conv = "running"]
    /\ tpc' = [tpc EXCEPT ![t] = "blocked"]
    /\ UNCHANGED detailVars
    /\ UNCHANGED sharedVars
    /\ UNCHANGED <<call, cpu_count, url_list, name_list, input_valid,
                   output_valid, inputDir, outputDir, musicDir, existing_ids,
                   pcMain, idx, futures, queue, threads, scratch, collected,
                   failed, result>>

NextHang ==
    \/ NextProcess
    \/ \E t \in Tasks : PvdConversionHangs(t)

\* The threads of the program are scheduled fairly: a step of the calling
\* thread or of a worker thread that stays possible is taken.
InitHang == InitCommon /\ InitProcess

SpecHang == InitHang /\ [][NextHang]_vars /\ WF_vars(NextHang)

----------------------------------------------------------------------------
(* concurrent_compression over a directory with an entry it cannot read *)

\* Line 173 is inside the with block and outside any try: what
\* get_file_identifier raises ends the submit loop and leaves the block,
\* whose exit waits for the tasks submitted so far.
CompressionSubmitRaises ==
    /\ call = "compression"
    /\ pcMain = "submit"
    /\ idx <= Len(inputDir)
    /\ get_file_identifier(inputDir[idx]) = Raised
    /\ pcMain' = "aborted"
    /\ UNCHANGED detailVars
    /\ UNCHANGED sharedVars
    /\ UNCHANGED <<call, cpu_count, url_list, name_list, input_valid,
                   output_valid, inputDir, outputDir, musicDir, existing_ids,
                   idx, futures, queue, threads, tpc, tout, scratch,
                   collected, failed, result>>

\* The exception leaves concurrent_compression (and main, up to the handler
\* of ProgramEntrance.py, lines 182-183) once the worker threads have ended.
AbortedExit ==
    /\ pcMain = "aborted"
    /\ queue = <<>>
    /\ Running = {}
    /\ pcMain' = "crashed"
    /\ UNCHANGED detailVars
    /\ UNCHANGED sharedVars
    /\ UNCHANGED <<call, cpu_count, url_list, name_list, input_valid,
                   output_valid, inputDir, outputDir, musicDir, existing_ids,
                   idx, futures, queue, threads, tpc, tout, scratch,
                   collected, failed, result>>

\* Listings of readable files in which at most one entry cannot be read.
DanglingListings(n) ==
    { s \in SeqsUpTo(InputContents \cup {Dangling}, n) :
        /\ Cardinality({ i \in 1..Len(s) : s[i] = Dangling }) <= 1
        /\ \A i \in 1..Len(s), j \in 1..Len(s) :
              (i < j /\ s[i] # Dangling /\ s[j] # Dangling)
                  => s[i].size <= s[j].size }

InitDangling ==
    /\ InitCommon
    /\ call = "compression"
    /\ cpu_count = 0
    /\ url_list = <<>>
    /\ name_list = <<>>
    /\ input_valid \in BOOLEAN
    /\ output_valid \in BOOLEAN
    /\ inputDir \in DanglingListings(MaxFiles)
    /\ outputDir \in InitialOutputs \cup {[n \in {0} |-> Dangling]}
    /\ musicDir = {}
    /\ track_information = track_label

NextDangling ==
    \/ NextCompression
    \/ CompressionSubmitRaises
    \/ AbortedExit

SpecDangling == InitDangling /\ [][NextDangling]_vars

----------------------------------------------------------------------------
(* A pool run that is interrupted *)

\* KeyboardInterrupt is raised in the calling thread while it is inside the
\* with block (the submit loop or the as_completed loop); neither pool
\* function handles it, so the block is left and ThreadPoolExecutor.__exit__
\* calls shutdown(wait=True): queued work items are not cancelled, and the
\* calling thread waits for the worker threads.
KeyboardInterrupt ==
    /\ call \in {"process", "compression"}
    /\ pcMain \in {"submit", "collect"}
    /\ pcMain' = "interrupted"
    /\ UNCHANGED detailVars
    /\ UNCHANGED sharedVars
    /\ UNCHANGED <<call, cpu_count, url_list, name_list, input_valid,
                   output_valid, inputDir, outputDir, musicDir, existing_ids,
                   idx, futures, queue, threads, tpc, tout, scratch,
                   collected, failed, result>>

\* The executor is left without waiting for its worker threads.
InterruptedExitNoWait ==
    /\ pcMain = "interrupted"
    /\ pcMain' = "stopped"
    /\ UNCHANGED detailVars
    /\ UNCHANGED sharedVars
    /\ UNCHANGED <<call, cpu_count, url_list, name_list, input_valid,
                   output_valid, inputDir, outputDir, musicDir, existing_ids,
                   idx, futures, queue, threads, tpc, tout, scratch,
                   collected, failed, result>>

\* shutdown(wait=True) returns when the worker threads have ended, which
\* they do when the work queue is empty; the exception then leaves the pool
\* function and reaches the handler of ProgramEntrance.py, lines 180-181.
InterruptedExit ==
    /\ pcMain = "interrupted"
    /\ queue = <<>>
    /\ Running = {}
    /\ pcMain' = "stopped"
    /\ UNCHANGED detailVars
    /\ UNCHANGED sharedVars
    /\ UNCHANGED <<call, cpu_count, url_list, name_list, input_valid,
                   output_valid, inputDir, outputDir, musicDir, existing_ids,
                   idx, futures, queue, threads, tpc, tout, scratch,
                   collected, failed, result>>

NextInterrupt ==
    \/ Next
    \/ KeyboardInterrupt
    \/ InterruptedExit

\* The runs that are interrupted: the names of the videos and the files of
\* earlier runs make no difference to the executor, so one name is given
\* to every video and the output directory starts empty.
InitInterrupt ==
    /\ Init
    /\ \A i \in 1..Len(name_list) : name_list[i] = "a"
    /\ outputDir = <<>>

SpecInterrupt == InitInterrupt /\ [][NextInterrupt]_vars

----------------------------------------------------------------------------
(* concurrent_compression, run after run over the same directories *)

\* main calls concurrent_compression once per run of the program; the next
\* run of the program finds the directories as this run left them.
RunAgain ==
    /\ call = "compression"
    /\ pcMain = "returned"
    /\ pcMain' = "start"
    /\ existing_ids' = {}
    /\ idx' = 1
    /\ futures' = <<>>
    /\ queue' = <<>>
    /\ threads' = 0
    /\ tpc' = [t \in Tasks |-> "pending"]
    /\ tout' = [t \in Tasks |-> NoOutcome]
    /\ collected' = {}
    /\ failed' = 0
    /\ result' = "none"
    /\ UNCHANGED detailVars
    /\ UNCHANGED sharedVars
    /\ UNCHANGED <<call, cpu_count, url_list, name_list, input_valid,
                   output_valid, inputDir, outputDir, musicDir, scratch>>

NextRerun ==
    \/ NextCompression
    \/ RunAgain

InitRerun == InitCommon /\ InitCompression

SpecRerun == InitRerun /\ [][NextRerun]_vars

TypeOK ==
    /\ call \in {"process", "compression", "compress", "download_video",
                "crawl_favorites", "main", "download_processing",
                "get_existing_identifiers", "audio_track_processing",
                "data_classification"}
    /\ pcMain \in {"start", "submit", "collect", "returned", "interrupted",
                  "stopped", "aborted", "crashed"}
    /\ threads \in 0..10
    /\ failed \in 0..Cardinality(Tasks)
    /\ collected \subseteq Submitted

----------------------------------------------------------------------------
(* AudioCompressor.compress: one compression task, stage by stage *)

MaxRetry == 3

TimeoutCap == 300
WaitCap == 30

\* AudioCompressor.__init__: the timeout table, from the defaults of lines
\* 35-39 or from the configuration (which is not range-checked).
TimeoutTables ==
    { [load_time |-> 5,  compress_time |-> 20, completion_time |-> 100],
      [load_time |-> 10, compress_time |-> 20, completion_time |-> 400] }

TimeoutKeys == {"load_time", "compress_time", "completion_time"}

\* The wait without its cap.
CompressWaitUncapped(count) == 5 ^ count

\* Line 324: wait_time = min(5 ** count, 30)
CompressWait(count) == Min(5 ^ count, WaitCap)

\* The escalation without its cap.
EscalateUncapped(t) == t * 2

\* Line 330: self.timeouts[key] = min(self.timeouts[key] * 2, 300)
Escalate(t) == Min(t * 2, TimeoutCap)

StageOrder == <<"init_browser", "navigate", "upload", "submit",
                "await_result", "locate", "await_start", "await_complete",
                "finalize">>

StagesBefore(stage) ==
    { StageOrder[i] : i \in { j \in 1..Len(StageOrder) :
          \E k \in 1..Len(StageOrder) : StageOrder[k] = stage /\ j < k } }

Partials == {"old.crdownload", "new.crdownload"}

\* A stage of the attempt passed: the next stage is entered.
StagePass(stage, next) ==
    [cmp EXCEPT !.pc = next, !.passed = cmp.passed \cup {stage}]

\* A failing stage does not end the attempt.
StageFailIgnored ==
    [cmp EXCEPT !.pc =
        IF cmp.pc = "finalize" THEN "except"
        ELSE StageOrder[1 + CHOOSE i \in 1..Len(StageOrder) :
                                StageOrder[i] = cmp.pc]]

\* A stage raised, or returned False and compress raised: line 322.
StageFail == [cmp EXCEPT !.pc = "except"]

\* Lines 285-302: the checks and the head of the retry loop.
CompressCall ==
    /\ cmp.pc = "call"
    /\ cmp' = IF ~cmp.input_is_file \/ ~cmp.output_is_dir \/ cmp.retry < 1
              THEN [cmp EXCEPT !.pc = "returned", !.result = "False"]
              ELSE [cmp EXCEPT !.pc = "init_browser", !.count = 1]
    /\ UNCHANGED <<poolVars, dl, cr, mn, tk, cv, rs, tg, dc>>

\* Lines 305-306: init_browser; webdriver.Edge may raise.
CompressInitBrowser ==
    /\ cmp.pc = "init_browser"
    /\ \/ cmp' = [StagePass("init_browser", "navigate") EXCEPT
                     !.browser = "open", !.sessions = cmp.sessions + 1,
                     !.live = cmp.live + 1]
       \/ cmp' = StageFail
    /\ UNCHANGED <<poolVars, dl, cr, mn, tk, cv, rs, tg, dc>>

\* Line 308: self.browser.get(...)
CompressNavigate ==
    /\ cmp.pc = "navigate"
    /\ \/ cmp' = StagePass("navigate", "upload")
       \/ cmp' = StageFail
    /\ UNCHANGED <<poolVars, dl, cr, mn, tk, cv, rs, tg, dc>>

\* Lines 311-312: upload_file waits for the upload control (load_time).
CompressUpload ==
    /\ cmp.pc = "upload"
    /\ \/ cmp' = StagePass("upload", "submit")
       \/ cmp' = StageFail
    /\ UNCHANGED <<poolVars, dl, cr, mn, tk, cv, rs, tg, dc>>

\* Lines 204-209: start_compression waits for the submit button and clicks.
CompressSubmit ==
    /\ cmp.pc = "submit"
    /\ \/ cmp' = StagePass("submit", "await_result")
       \/ cmp' = StageFail
    /\ UNCHANGED <<poolVars, dl, cr, mn, tk, cv, rs, tg, dc>>

\* The result of start_compression is not looked at.
StartCompressionIgnored == [cmp EXCEPT !.pc = "locate"]

\* Lines 314-315: start_compression returned False, compress raises.
StartCompressionFailed == StageFail

\* Lines 212-217: start_compression waits for the result marker
\* (compress_time).
CompressAwaitResult ==
    /\ cmp.pc = "await_result"
    /\ \/ cmp' = StagePass("await_result", "locate")
       \/ cmp' = StartCompressionFailed
    /\ UNCHANGED <<poolVars, dl, cr, mn, tk, cv, rs, tg, dc>>

\* Lines 232-238: download_compressed_file finds the download link and
\* clicks it.
CompressLocate ==
    /\ cmp.pc = "locate"
    /\ \/ cmp' = StagePass("locate", "await_start")
       \/ cmp' = StageFail
    /\ UNCHANGED <<poolVars, dl, cr, mn, tk, cv, rs, tg, dc>>

\* Lines 241-243: wait until the download directory holds a .crdownload
\* file.  Meanwhile the browser starts the download, finishes it before a
\* poll sees it, or does nothing.
CompressAwaitStart ==
    /\ cmp.pc = "await_start"
    /\ \E new \in {{"new.crdownload"}, {"new.mp3"}, {}} :
          LET dir == cmp.tempDir \cup new IN
          cmp' = IF dir \cap Partials # {}
                 THEN [StagePass("await_start", "await_complete") EXCEPT
                          !.tempDir = dir]
                 ELSE [StageFail EXCEPT !.tempDir = dir]
    /\ UNCHANGED <<poolVars, dl, cr, mn, tk, cv, rs, tg, dc>>

\* Lines 246-248: wait until the download directory holds no .crdownload
\* file.  Meanwhile the browser finishes the download, cancels it, or the
\* download stays unfinished.
CompressAwaitComplete ==
    /\ cmp.pc = "await_complete"
    /\ \E env \in {"finished", "cancelled", "unfinished"} :
          LET dir == IF "new.crdownload" \notin cmp.tempDir
                        \/ env = "unfinished"
                     THEN cmp.tempDir
                     ELSE (cmp.tempDir \ {"new.crdownload"}) \cup
                          (IF env = "finished" THEN {"new.mp3"} ELSE {})
          IN
          cmp' = IF dir \cap Partials = {}
                 THEN [StagePass("await_complete", "finalize") EXCEPT
                          !.tempDir = dir]
                 ELSE [StageFail EXCEPT !.tempDir = dir]
    /\ UNCHANGED <<poolVars, dl, cr, mn, tk, cv, rs, tg, dc>>

\* Line 251: the files of the download directory that are not partial.
downloaded_files(dir) == dir \ Partials

\* The copy is made and True returned without a downloaded file.
NoDownloadedFileIgnored == FALSE

\* Line 253: if downloaded_files
NoDownloadedFile == downloaded_files(cmp.tempDir) = {}

\* Lines 251-265: the newest downloaded file is copied to
\* output_path/file_name; without a downloaded file, or when copy2 raises,
\* the function returns False.  Lines 320-321: compress returns True.
CompressFinalize ==
    /\ cmp.pc = "finalize"
    /\ IF NoDownloadedFile
       THEN cmp' = StageFail
       ELSE \/ cmp' = [StagePass("finalize", "finally") EXCEPT
                          !.outFile = "copied", !.copies = cmp.copies + 1,
                          !.returning = TRUE]
            \/ cmp' = [StageFail EXCEPT
                          !.outFile = "partial", !.copies = cmp.copies + 1]
    /\ UNCHANGED <<poolVars, dl, cr, mn, tk, cv, rs, tg, dc>>

\* Lines 322-330: the backoff wait, then every timeout is escalated.
CompressExcept ==
    /\ cmp.pc = "except"
    /\ cmp' = [cmp EXCEPT
                 !.pc = "finally",
                 !.waits = Append(cmp.waits, CompressWait(cmp.count)),
                 !.timeouts = [k \in TimeoutKeys |-> Escalate(cmp.timeouts[k])]]
    /\ UNCHANGED <<poolVars, dl, cr, mn, tk, cv, rs, tg, dc>>

\* The loop runs one attempt too many.
MoreAttemptsInclusive == cmp.count <= cmp.retry

\* The retry loop goes on while count < retry (line 302).
MoreAttempts == cmp.count < cmp.retry

\* The finally block is skipped when the attempt returns True.
TeardownUnlessReturning(c, quit_raised) ==
    IF c.returning THEN c
    ELSE [c EXCEPT !.browser = "None",
                   !.live = IF c.browser = "open" THEN c.live - 1 ELSE c.live,
                   !.quitErrors = IF quit_raised THEN c.quitErrors + 1
                                  ELSE c.quitErrors]

\* Lines 331-336: self.browser.quit() ends the session; what it raises is
\* logged and dropped; then self.browser = None.
Teardown(c, quit_raised) ==
    [c EXCEPT !.browser = "None",
              !.live = IF c.browser = "open" THEN c.live - 1 ELSE c.live,
              !.quitErrors = IF quit_raised THEN c.quitErrors + 1
                             ELSE c.quitErrors]

\* What quit() can do: without a session self.browser is None and the call
\* raises AttributeError; with a session it returns or raises.
QuitRaises(c) == IF c.browser = "None" THEN {TRUE} ELSE BOOLEAN

\* Lines 331-339: the session is closed and forgotten; then compress returns
\* True, starts the next attempt, or gives up and returns False.  Closing
\* the browser ends an unfinished download; its partial file may stay.
CompressFinally ==
    /\ cmp.pc = "finally"
    /\ \E keep \in BOOLEAN, quit_raised \in QuitRaises(cmp) :
          LET aged == (IF cmp.tempDir \cap {"new.mp3", "old.mp3"} # {}
                       THEN {"old.mp3"} ELSE {})
                      \cup
                      (IF "old.crdownload" \in cmp.tempDir
                          \/ ("new.crdownload" \in cmp.tempDir /\ keep)
                       THEN {"old.crdownload"} ELSE {})
              base == [Teardown(cmp, quit_raised) EXCEPT
                         !.tempDir = aged,
                         !.attempts = Append(cmp.attempts,
                              IF cmp.returning THEN "ok" ELSE "failed")]
          IN
          cmp' = IF cmp.returning
                 THEN [base EXCEPT !.pc = "returned", !.result = "True"]
                 ELSE IF MoreAttempts
                 THEN [base EXCEPT !.pc = "init_browser",
                                   !.count = cmp.count + 1,
                                   !.passed = {}]
                 ELSE [base EXCEPT !.pc = "returned", !.result = "False"]
    /\ UNCHANGED <<poolVars, dl, cr, mn, tk, cv, rs, tg, dc>>

\* No pool function runs while one compress call is modelled.
PoolAtRest(c) ==
    /\ call = c
    /\ cpu_count = 0
    /\ url_list = <<>>
    /\ name_list = <<>>
    /\ input_valid = TRUE
    /\ output_valid = TRUE
    /\ inputDir = <<>>
    /\ outputDir = <<>>
    /\ musicDir = {}
    /\ existing_ids = {}
    /\ pcMain = "returned"
    /\ idx = 1
    /\ futures = <<>>
    /\ queue = <<>>
    /\ threads = 0
    /\ tpc = [t \in Tasks |-> "pending"]
    /\ tout = [t \in Tasks |-> NoOutcome]
    /\ scratch = [d \in ScratchNames |-> 0]
    /\ collected = {}
    /\ failed = 0
    /\ result = "none"
    /\ track_information = track_label
    /\ writers = {}

InitCompress ==
    /\ PoolAtRest("compress")
    /\ rs = RsIdle
    /\ tg = TgIdle
    /\ dc = DcIdle
    /\ mn = MnIdle
    /\ tk = TkIdle
    /\ cv = CvIdle
    /\ dl = DlIdle
    /\ cr = CrIdle
    /\ \E r \in 0..MaxRetry, tt \in TimeoutTables, f \in BOOLEAN,
          d \in BOOLEAN, o \in {"absent", "present"} :
          cmp = [pc |-> "call", retry |-> r, count |-> 0,
                 browser |-> "None", sessions |-> 0, live |-> 0,
                 quitErrors |-> 0, timeouts |-> tt,
                 timeouts0 |-> tt,
                 tempDir |-> {}, outFile |-> o, outFile0 |-> o,
                 copies |-> 0, passed |-> {}, returning |-> FALSE,
                 waits |-> <<>>, attempts |-> <<>>, result |-> "none",
                 input_is_file |-> f, output_is_dir |-> d]

NextCompress ==
    \/ CompressCall
    \/ CompressInitBrowser
    \/ CompressNavigate
    \/ CompressUpload
    \/ CompressSubmit
    \/ CompressAwaitResult
    \/ CompressLocate
    \/ CompressAwaitStart
    \/ CompressAwaitComplete
    \/ CompressFinalize
    \/ CompressExcept
    \/ CompressFinally

SpecCompress == InitCompress /\ [][NextCompress]_vars

----------------------------------------------------------------------------
(* download_video: one download, attempt by attempt *)

DEFAULT_DOWNLOAD_TIMEOUT == 60
MinDownloadTimeout == 30
MaxDownloadTimeout == 120
DownloadStepCap == 10
DownloadWaitCap == 5

DownloadTimeouts == {20, 30, 60, 120, 130}

\* Lines 120-122: a timeout outside 30..120 is replaced by the default.
CheckedTimeout(t) ==
    IF MinDownloadTimeout <= t /\ t <= MaxDownloadTimeout THEN t
    ELSE DEFAULT_DOWNLOAD_TIMEOUT

\* Line 153: timeout += min(3 ** count, 10)
DownloadEscalate(t, count) == t + Min(3 ^ count, DownloadStepCap)

\* Line 154: waiting_time = min(2 ** count, 5)
DownloadWait(count) == Min(2 ^ count, DownloadWaitCap)

\* The loop runs one attempt too many.
MoreDownloadsInclusive == dl.count <= dl.retry

\* The retry loop goes on while count < retry (line 133).
MoreDownloads == dl.count < dl.retry

\* Lines 110-133: the checks and the head of the retry loop.
DownloadCall ==
    /\ dl.pc = "call"
    /\ dl' = IF ~dl.output_valid
             THEN [dl EXCEPT !.pc = "returned", !.status = "invalid"]
             ELSE IF dl.retry < 1
             THEN [dl EXCEPT !.pc = "returned", !.status = "exhausted",
                             !.timeout = CheckedTimeout(dl.timeout)]
             ELSE [dl EXCEPT !.pc = "run", !.count = 1,
                             !.timeout = CheckedTimeout(dl.timeout)]
    /\ UNCHANGED <<poolVars, cmp, cr, mn, tk, cv, rs, tg, dc>>

\* Lines 134-151: one invocation of you-get; it exits with 0, exits with
\* another code, runs into the timeout, or subprocess.run raises.
DownloadRun ==
    /\ dl.pc = "run"
    /\ \E o \in {"zero", "nonzero", "TimeoutExpired", "Exception"} :
          dl' = IF o = "zero"
                THEN [dl EXCEPT !.pc = "returned", !.status = "ok",
                                !.calls = dl.calls + 1, !.last = o]
                ELSE [dl EXCEPT !.pc = "backoff",
                                !.calls = dl.calls + 1, !.last = o]
    /\ UNCHANGED <<poolVars, cmp, cr, mn, tk, cv, rs, tg, dc>>

\* The loop leaving without wait or escalation after its last attempt.
DownloadBackoffBetweenAttempts ==
    /\ dl.pc = "backoff"
    /\ dl' = IF MoreDownloads
             THEN [dl EXCEPT
                     !.pc = "run", !.count = dl.count + 1,
                     !.timeout = DownloadEscalate(dl.timeout, dl.count),
                     !.waits = Append(dl.waits, DownloadWait(dl.count))]
             ELSE [dl EXCEPT !.pc = "returned", !.status = "exhausted"]
    /\ UNCHANGED <<poolVars, cmp, cr, mn, tk, cv, rs, tg, dc>>

\* Lines 153-159: the timeout grows, the backoff wait is slept, and the
\* loop starts the next attempt or ends.
DownloadBackoff ==
    /\ dl.pc = "backoff"
    /\ LET base == [dl EXCEPT
                      !.timeout = DownloadEscalate(dl.timeout, dl.count),
                      !.waits = Append(dl.waits, DownloadWait(dl.count))]
       IN dl' = IF MoreDownloads
                THEN [base EXCEPT !.pc = "run", !.count = dl.count + 1]
                ELSE [base EXCEPT !.pc = "returned", !.status = "exhausted"]
    /\ UNCHANGED <<poolVars, cmp, cr, mn, tk, cv, rs, tg, dc>>

InitDownload ==
    /\ PoolAtRest("download_video")
    /\ rs = RsIdle
    /\ tg = TgIdle
    /\ dc = DcIdle
    /\ mn = MnIdle
    /\ tk = TkIdle
    /\ cv = CvIdle
    /\ cmp = CmpIdle
    /\ cr = CrIdle
    /\ \E r \in 0..MaxRetry, t \in DownloadTimeouts, v \in BOOLEAN :
          dl = [pc |-> "call", retry |-> r, timeout |-> t, count |-> 0,
                calls |-> 0, waits |-> <<>>, last |-> "none",
                status |-> "none", output_valid |-> v]

NextDownload ==
    \/ DownloadCall
    \/ DownloadRun
    \/ DownloadBackoff

SpecDownload == InitDownload /\ [][NextDownload]_vars

----------------------------------------------------------------------------
(* crawl_favorites: the catalog fetch, attempt by attempt *)

DEFAULT_RETRY == 2
DEFAULT_CRAWL_TIMEOUT == 5
MinCrawlRetry == 1
MaxCrawlRetry == 5
MinCrawlTimeout == 0
MaxCrawlTimeout == 10
CrawlStepCap == 5
CrawlWaitCap == 5

CrawlRetries == 0..MaxRetry \cup {MaxCrawlRetry + 1}
CrawlTimeouts == {0, 5, 10, 11}

\* Lines 39-41: a retry outside 1..5 is replaced by the default.
CheckedCrawlRetry(r) ==
    IF MinCrawlRetry <= r /\ r <= MaxCrawlRetry THEN r ELSE DEFAULT_RETRY

\* Lines 43-45: a timeout outside 0..10 is replaced by the default.
CheckedCrawlTimeout(t) ==
    IF MinCrawlTimeout <= t /\ t <= MaxCrawlTimeout THEN t
    ELSE DEFAULT_CRAWL_TIMEOUT

\* Line 81: timeout += min(2 ** count, 5)
CrawlEscalate(t, count) == t + Min(2 ^ count, CrawlStepCap)

\* Line 89: waiting_time = min(2 ** count, 5)
CrawlWait(count) == Min(2 ^ count, CrawlWaitCap)

\* The retry loop goes on while count < retry (line 60).
MoreCrawls == cr.count < cr.retry

\* Exhausted retries leave the function as an exception.
ExhaustedRaises == [pc |-> "raised", result |-> "none"]

\* Lines 93-94: after the loop an error is logged and {} is returned.
Exhausted == [pc |-> "returned", result |-> "{}"]

\* Lines 35-60: the checks and the head of the retry loop; without a fid
\* the function returns {} .
CrawlCall ==
    /\ cr.pc = "call"
    /\ cr' = IF ~cr.fid
             THEN [cr EXCEPT !.pc = "returned", !.status = "no_fid",
                             !.result = "{}"]
             ELSE [cr EXCEPT !.pc = "request", !.count = 1,
                             !.retry = CheckedCrawlRetry(cr.retry),
                             !.timeout = CheckedCrawlTimeout(cr.timeout)]
    /\ UNCHANGED <<poolVars, cmp, dl, mn, tk, cv, rs, tg, dc>>

\* Lines 61-87: one request.  Status 200 with code 0 returns the response,
\* whose media list may be empty; another status or code is logged; a
\* Timeout adds to the timeout; every other exception is logged.
CrawlRequest ==
    /\ cr.pc = "request"
    /\ \/ \E catalog \in {"response, no media", "response, media"} :
             cr' = [cr EXCEPT !.pc = "returned", !.status = "ok",
                              !.calls = cr.calls + 1, !.last = "code 0",
                              !.result = catalog]
       \/ \E o \in {"bad code", "ValueError", "ConnectionError",
                    "Exception"} :
             cr' = [cr EXCEPT !.pc = "backoff", !.calls = cr.calls + 1,
                              !.last = o]
       \/ cr' = [cr EXCEPT !.pc = "backoff", !.calls = cr.calls + 1,
                           !.last = "Timeout",
                           !.timeout = CrawlEscalate(cr.timeout, cr.count)]
    /\ UNCHANGED <<poolVars, cmp, dl, mn, tk, cv, rs, tg, dc>>

\* Lines 89-94: the backoff wait is slept, and the loop starts the next
\* attempt or ends.
CrawlBackoff ==
    /\ cr.pc = "backoff"
    /\ LET base == [cr EXCEPT !.waits = Append(cr.waits, CrawlWait(cr.count))]
       IN cr' = IF MoreCrawls
                THEN [base EXCEPT !.pc = "request", !.count = cr.count + 1]
                ELSE [base EXCEPT !.pc = Exhausted.pc,
                                  !.result = Exhausted.result,
                                  !.status = "exhausted"]
    /\ UNCHANGED <<poolVars, cmp, dl, mn, tk, cv, rs, tg, dc>>

InitCrawl ==
    /\ PoolAtRest("crawl_favorites")
    /\ rs = RsIdle
    /\ tg = TgIdle
    /\ dc = DcIdle
    /\ mn = MnIdle
    /\ tk = TkIdle
    /\ cv = CvIdle
    /\ cmp = CmpIdle
    /\ dl = DlIdle
    /\ \E r \in CrawlRetries, t \in CrawlTimeouts, f \in BOOLEAN :
          cr = [pc |-> "call", fid |-> f, retry |-> r, timeout |-> t,
                count |-> 0, calls |-> 0, waits |-> <<>>, last |-> "none",
                status |-> "none", result |-> "none"]

NextCrawl ==
    \/ CrawlCall
    \/ CrawlRequest
    \/ CrawlBackoff

SpecCrawl == InitCrawl /\ [][NextCrawl]_vars

----------------------------------------------------------------------------
(* The three retry loops side by side *)

InitRetry == InitCompress \/ InitDownload \/ InitCrawl

NextRetry == NextCompress \/ NextDownload \/ NextCrawl

SpecRetry == InitRetry /\ [][NextRetry]_vars

----------------------------------------------------------------------------
(* main: one run of the program (ProgramEntrance.py) *)

\* ProgramEntrance.py, lines 41-45: the external tools the run looks for.
Tools == {"ffmpeg", "you-get", "msedgedriver"}

\* The subdirectories of the configuration the run uses afterwards.
Subdirectories == {"Log", "mus_orig", "mus_comp"}

\* path_initialization, lines 27-66: {} when the root is not a directory,
\* otherwise the subdirectories that exist or could be created.
path_initialization(root_valid, creatable) ==
    IF root_valid THEN creatable ELSE {}

\* tool_detection, lines 82-100: the tools found on the PATH; the missing
\* ones are logged and the found ones returned.
tool_detection(present) == Tools \cap present

\* os.path.isdir(path_result.get(key)): raises TypeError for None.
IsDirRaises(key) == key \notin mn.path_result

\* Lines 138-139.
MainPathInitialization ==
    /\ mn.pc = "start"
    /\ mn' = [mn EXCEPT !.pc = "file_log",
                        !.path_result =
                            path_initialization(mn.root_valid, mn.creatable)]
    /\ UNCHANGED <<poolVars, cmp, dl, cr, tk, cv, rs, tg, dc>>

\* Lines 141-145: file_log tests os.path.isdir(output_path)
\* (ConfigureLogging.py, line 69).
MainFileLog ==
    /\ mn.pc = "file_log"
    /\ mn' = [mn EXCEPT !.pc = IF IsDirRaises("Log") THEN "crashed"
                               ELSE "tool_detection"]
    /\ UNCHANGED <<poolVars, cmp, dl, cr, tk, cv, rs, tg, dc>>

\* Line 147.
MainToolDetection ==
    /\ mn.pc = "tool_detection"
    /\ mn' = [mn EXCEPT !.pc = "crawl_favorites",
                        !.tools = tool_detection(mn.present)]
    /\ UNCHANGED <<poolVars, cmp, dl, cr, tk, cv, rs, tg, dc>>

\* Line 148: the fetch returns {} or a catalog of some items.
MainCrawl ==
    /\ mn.pc = "crawl_favorites"
    /\ \E n \in 0..MaxItems :
          mn' = [mn EXCEPT !.pc = "data_classification", !.crawl_data = n]
    /\ UNCHANGED <<poolVars, cmp, dl, cr, tk, cv, rs, tg, dc>>

\* Line 149 and DataProcessing.py, lines 43-55: no data gives {} before the
\* music directory is tested; otherwise the items not yet downloaded are
\* kept.
MainClassify ==
    /\ mn.pc = "data_classification"
    /\ \/ /\ mn.crawl_data = 0
          /\ mn' = [mn EXCEPT !.pc = "concurrent_compression",
                              !.process_data = 0]
       \/ /\ mn.crawl_data > 0
          /\ IsDirRaises("mus_orig")
          /\ mn' = [mn EXCEPT !.pc = "crashed"]
       \/ /\ mn.crawl_data > 0
          /\ ~IsDirRaises("mus_orig")
          /\ \E k \in 0..mn.crawl_data :
                mn' = [mn EXCEPT !.pc = IF k > 0 THEN "concurrent_process"
                                        ELSE "concurrent_compression",
                                 !.process_data = k]
    /\ UNCHANGED <<poolVars, cmp, dl, cr, tk, cv, rs, tg, dc>>

\* Lines 151-163: concurrent_process submits one task for every item
\* (ConcurrentTasks.py, lines 73-104).
MainProcess ==
    /\ mn.pc = "concurrent_process"
    /\ mn' = [mn EXCEPT !.pc = "process_wait",
                        !.pools = Append(mn.pools, "concurrent_process"),
                        !.submitted = mn.submitted + mn.process_data,
                        !.inflight = mn.process_data]
    /\ UNCHANGED <<poolVars, cmp, dl, cr, tk, cv, rs, tg, dc>>

\* One process_video_download task ends (ConcurrentTasks.py, lines 45-48).
MainProcessTaskDone ==
    /\ mn.pc # "idle"
    /\ mn.inflight > 0
    /\ mn' = [mn EXCEPT !.inflight = mn.inflight - 1]
    /\ UNCHANGED <<poolVars, cmp, dl, cr, tk, cv, rs, tg, dc>>

\* concurrent_process returning as soon as the tasks are submitted.
PoolDrainedAtOnce(m) == TRUE

\* ConcurrentTasks.py, lines 106-115: as_completed yields every future and
\* the with block shuts the executor down with wait=True.
PoolDrained(m) == m.inflight = 0

\* Lines 160-166: concurrent_process returns; information_statistics and
\* name_extraction have run before it.
MainProcessReturn ==
    /\ mn.pc = "process_wait"
    /\ PoolDrained(mn)
    /\ mn' = [mn EXCEPT !.pc = "concurrent_compression"]
    /\ UNCHANGED <<poolVars, cmp, dl, cr, tk, cv, rs, tg, dc>>

\* Lines 168-173: concurrent_compression tests both directories and submits
\* one task for every file that is not compressed yet
\* (ConcurrentTasks.py, lines 156-184).
MainCompression ==
    /\ mn.pc = "concurrent_compression"
    /\ \/ /\ IsDirRaises("mus_orig") \/ IsDirRaises("mus_comp")
          /\ mn' = [mn EXCEPT !.pc = "crashed"]
       \/ /\ ~IsDirRaises("mus_orig")
          /\ ~IsDirRaises("mus_comp")
          /\ \E k \in 0..MaxFiles :
                mn' = [mn EXCEPT
                         !.pc = "returned",
                         !.pools = Append(mn.pools, "concurrent_compression"),
                         !.submitted = mn.submitted + k]
    /\ UNCHANGED <<poolVars, cmp, dl, cr, tk, cv, rs, tg, dc>>

InitMain ==
    /\ PoolAtRest("main")
    /\ rs = RsIdle
    /\ tg = TgIdle
    /\ dc = DcIdle
    /\ cmp = CmpIdle
    /\ dl = DlIdle
    /\ cr = CrIdle
    /\ tk = TkIdle
    /\ cv = CvIdle
    /\ \E r \in BOOLEAN, c \in SUBSET Subdirectories, p \in SUBSET Tools :
          /\ ~r => c = {}
          /\ mn = [pc |-> "start", root_valid |-> r, creatable |-> c,
                   present |-> p, path_result |-> {}, tools |-> {},
                   crawl_data |-> 0, process_data |-> 0, pools |-> <<>>,
                   submitted |-> 0, inflight |-> 0]

NextMain ==
    \/ MainPathInitialization
    \/ MainFileLog
    \/ MainToolDetection
    \/ MainCrawl
    \/ MainClassify
    \/ MainProcess
    \/ MainProcessTaskDone
    \/ MainProcessReturn
    \/ MainCompression

SpecMain == InitMain /\ [][NextMain]_vars

----------------------------------------------------------------------------
(* The compression tasks of one pool, each with its own AudioCompressor *)

\* FileCompression.py, line 33: self.retry = config.get("retry", 3), with
\* a configuration that sets retry to 2.
CompressorRetry == 2

\* The timeout table of the configuration, here the values of lines 35-39.
ConfiguredTimeouts ==
    [load_time |-> 5, compress_time |-> 20, completion_time |-> 100]

\* The dict config["Timeout_Period"], which every task is handed.
ConfigDict == 0

\* self.browser = None
NoBrowser == [by |-> 0, n |-> 0]

NoDict == [load_time |-> 0, compress_time |-> 0, completion_time |-> 0]

\* self.timeouts is the dict of the configuration itself.
TimeoutsAliased(t) == ConfigDict

\* Lines 56-59: self.timeouts is a dict the comprehension builds anew for
\* the AudioCompressor of task t.
Timeouts(t) == t

\* The timeout table task t reads its timeouts from.
Seen(k, t) == k.heap[k.self[t].timeouts]

\* A worker starts the task (line 128): the AudioCompressor is built with
\* browser None and a timeout table filled from the configuration; the
\* constructor is outside the try.
TkEnter(t) ==
    /\ call = "compression"
    /\ tk.pc = "tasks"
    /\ WorkerFree
    /\ t = Head(queue)
    /\ queue' = Tail(queue)
    /\ \/ /\ tpc' = [tpc EXCEPT ![t] = "constructed"]
          /\ tk' = [tk EXCEPT
                      !.heap[Timeouts(t)] = tk.heap[ConfigDict],
                      !.self[t] = [timeouts |-> Timeouts(t),
                                   browser |-> NoBrowser, count |-> 1]]
       \/ /\ tpc' = [tpc EXCEPT ![t] = "raised"]
          /\ UNCHANGED tk
    /\ UNCHANGED sharedVars
    /\ UNCHANGED <<cmp, dl, cr, mn, cv, rs, tg, dc>>
    /\ UNCHANGED <<call, cpu_count, url_list, name_list, input_valid,
                   output_valid, inputDir, outputDir, musicDir, existing_ids,
                   pcMain, idx, futures, threads, tout, scratch, collected,
                   failed, result>>

\* Lines 305-306 and 140-141: init_browser starts a browser for the
\* AudioCompressor of the task and keeps it in self.browser.
TkInitBrowser(t) ==
    /\ call = "compression"
    /\ tk.pc = "tasks"
    /\ tpc[t] = "constructed"
    /\ tk.self[t].browser = NoBrowser
    /\ LET s == [by |-> t, n |-> tk.self[t].count] IN
       tk' = [tk EXCEPT !.self[t].browser = s,
                        !.sessions = tk.sessions \cup {s}]
    /\ UNCHANGED <<poolVars, cmp, dl, cr, mn, cv, rs, tg, dc>>

\* Lines 331-336: quit() ends the session self.browser refers to.
TkQuit(k, t) ==
    [k EXCEPT !.self[t].browser = NoBrowser,
              !.sessions = k.sessions \ {k.self[t].browser}]

\* Lines 322-339: an attempt fails, with or without a browser: the timeouts
\* of self.timeouts are escalated, the session is ended, and the next
\* attempt starts or compress returns False.
TkAttemptFails(t) ==
    /\ call = "compression"
    /\ tk.pc = "tasks"
    /\ tpc[t] = "constructed"
    /\ LET d == tk.self[t].timeouts
           escalated == [TkQuit(tk, t) EXCEPT
                           !.heap[d] = [key \in TimeoutKeys |->
                                           Escalate(tk.heap[d][key])]]
       IN
       IF tk.self[t].count < CompressorRetry
       THEN /\ tk' = [escalated EXCEPT !.self[t].count = tk.self[t].count + 1]
            /\ UNCHANGED <<tpc, tout>>
       ELSE /\ tk' = escalated
            /\ tpc' = [tpc EXCEPT ![t] = compress_task_result("False").pc]
            /\ tout' = [tout EXCEPT ![t].res = compress_task_result("False").res]
    /\ UNCHANGED sharedVars
    /\ UNCHANGED <<cmp, dl, cr, mn, cv, rs, tg, dc>>
    /\ UNCHANGED <<call, cpu_count, url_list, name_list, input_valid,
                   output_valid, inputDir, outputDir, musicDir, existing_ids,
                   pcMain, idx, futures, queue, threads, scratch, collected,
                   failed, result>>

\* Lines 317-321 and 331-336: the attempt copied the artifact; the session
\* is ended and compress returns True.
TkAttemptSucceeds(t) ==
    /\ call = "compression"
    /\ tk.pc = "tasks"
    /\ tpc[t] = "constructed"
    /\ tk.self[t].browser # NoBrowser
    /\ tk' = TkQuit(tk, t)
    /\ tpc' = [tpc EXCEPT ![t] = compress_task_result("True").pc]
    /\ tout' = [tout EXCEPT ![t].res = compress_task_result("True").res]
    /\ outputDir' = [n \in DOMAIN outputDir \cup {t} |->
                        IF n = t THEN Artifact(inputDir[t])
                        ELSE outputDir[n]]
    /\ UNCHANGED sharedVars
    /\ UNCHANGED <<cmp, dl, cr, mn, cv, rs, tg, dc>>
    /\ UNCHANGED <<call, cpu_count, url_list, name_list, input_valid,
                   output_valid, inputDir, musicDir, existing_ids,
                   pcMain, idx, futures, queue, threads, scratch, collected,
                   failed, result>>

\* concurrent_compression over MaxFiles files none of which is compressed
\* yet, with a configuration that holds a timeout table.
InitTasks ==
    /\ call = "compression"
    /\ cpu_count = 0
    /\ url_list = <<>>
    /\ name_list = <<>>
    /\ input_valid = TRUE
    /\ output_valid = TRUE
    /\ inputDir = [i \in 1..MaxFiles |->
                       [header |-> FALSE, tit3 |-> <<>>, size |-> 7]]
    /\ outputDir = <<>>
    /\ musicDir = {}
    /\ existing_ids = {}
    /\ pcMain = "start"
    /\ idx = 1
    /\ futures = <<>>
    /\ queue = <<>>
    /\ threads = 0
    /\ tpc = [t \in Tasks |-> "pending"]
    /\ tout = [t \in Tasks |-> NoOutcome]
    /\ scratch = [d \in ScratchNames |-> 0]
    /\ collected = {}
    /\ failed = 0
    /\ result = "none"
    /\ track_information = track_label
    /\ writers = {}
    /\ cmp = CmpIdle
    /\ dl = DlIdle
    /\ cr = CrIdle
    /\ mn = MnIdle
    /\ cv = CvIdle
    /\ rs = RsIdle
    /\ tg = TgIdle
    /\ dc = DcIdle
    /\ tk = [pc |-> "tasks",
             heap |-> [d \in {ConfigDict} \cup Tasks |->
                          IF d = ConfigDict THEN ConfiguredTimeouts
                          ELSE NoDict],
             self |-> [t \in Tasks |->
                          [timeouts |-> ConfigDict, browser |-> NoBrowser,
                           count |-> 0]],
             sessions |-> {}]

NextTasks ==
    \/ CompressionValidate
    \/ CompressionSubmit
    \/ \E t \in Tasks :
          \/ TkEnter(t)
          \/ TkInitBrowser(t)
          \/ TkAttemptFails(t)
          \/ TkAttemptSucceeds(t)
          \/ CompressionCollect(t)
    \/ CompressionReturn

SpecTasks == InitTasks /\ [][NextTasks]_vars

----------------------------------------------------------------------------
(* download_processing: the conversion of one scratch directory *)

MaxArtifacts == 2

\* DataProcessing.py, line 15.
DEFAULT_CONVERT_RETRY == 3
MinConvertRetry == 1
MaxConvertRetry == 5

\* Lines 240-242: a retry outside 1..5 is replaced by the default.
CheckedConvertRetry(r) ==
    IF MinConvertRetry <= r /\ r <= MaxConvertRetry THEN r
    ELSE DEFAULT_CONVERT_RETRY

\* Lines 232-244: the checks, then os.listdir lists the scratch directory.
ConvertCall ==
    /\ cv.pc = "call"
    /\ cv' = IF ~cv.input_valid \/ ~cv.output_valid
             THEN [cv EXCEPT !.pc = "returned"]
             ELSE IF cv.files = {}
             THEN [cv EXCEPT !.pc = "returned",
                             !.retry = CheckedConvertRetry(cv.retry)]
             ELSE [cv EXCEPT !.pc = "ffmpeg", !.file = 1, !.count = 1,
                             !.retry = CheckedConvertRetry(cv.retry)]
    /\ UNCHANGED <<poolVars, cmp, dl, cr, mn, tk, rs, tg, dc>>

\* Lines 262-273: ffmpeg exits with 0: the artifact is removed and the
\* function returns.
ConvertSucceeded ==
    [cv EXCEPT !.pc = "returned",
               !.status[cv.file] = "converted",
               !.files = cv.files \ {cv.file},
               !.output = cv.output \cup {cv.file},
               !.calls = cv.calls + 1]

\* Lines 275-279: ffmpeg exited with another code: the next attempt follows
\* after a second; after the last attempt the artifact is removed and the
\* loop goes on with the next entry of the listing.
ConvertFailed ==
    IF cv.count < cv.retry
    THEN [cv EXCEPT !.count = cv.count + 1, !.calls = cv.calls + 1]
    ELSE [cv EXCEPT !.status[cv.file] = "exhausted",
                    !.files = cv.files \ {cv.file},
                    !.calls = cv.calls + 1,
                    !.count = 1,
                    !.file = cv.file + 1,
                    !.pc = IF cv.file < cv.listed THEN "ffmpeg"
                           ELSE "returned"]

\* Lines 262-279: one run of ffmpeg on the current entry of the listing;
\* subprocess.run is outside any try, so what it raises leaves the function.
ConvertRun ==
    /\ cv.pc = "ffmpeg"
    /\ \/ cv' = ConvertSucceeded
       \/ cv' = ConvertFailed
       \/ cv' = [cv EXCEPT !.pc = "raised"]
    /\ UNCHANGED <<poolVars, cmp, dl, cr, mn, tk, rs, tg, dc>>

InitConvert ==
    /\ PoolAtRest("download_processing")
    /\ rs = RsIdle
    /\ tg = TgIdle
    /\ dc = DcIdle
    /\ cmp = CmpIdle
    /\ dl = DlIdle
    /\ cr = CrIdle
    /\ mn = MnIdle
    /\ tk = TkIdle
    /\ \E n \in 0..MaxArtifacts, r \in 0..MaxRetry,
          i \in BOOLEAN, o \in BOOLEAN :
          cv = [pc |-> "call", input_valid |-> i, output_valid |-> o,
                retry |-> r, listed |-> n, files |-> 1..n,
                status |-> [f \in 1..n |-> "none"], output |-> {},
                file |-> 0, count |-> 0, calls |-> 0]

NextConvert ==
    \/ ConvertCall
    \/ ConvertRun

SpecConvert == InitConvert /\ [][NextConvert]_vars

----------------------------------------------------------------------------
(* The identity resolver over one directory (FileCompression.py) *)

\* The files of the directory: without an ID3 header (or with tags that do
\* not parse, which takes the second handler to the same return), with a
\* header and no TIT3 frame, with one TIT3 frame, with two.
ResolverFiles ==
    { [header |-> h, tit3 |-> t, size |-> n] :
        h \in BOOLEAN, t \in {<<>>, <<"7">>, <<"b", "a">>}, n \in {7, 12} }
    \ { f \in [header : {FALSE}, tit3 : {<<"7">>, <<"b", "a">>},
               size : {7, 12}] : TRUE }

\* Line 162: get_existing_identifiers starts with an empty set.
ResolverCall ==
    /\ rs.pc = "call"
    /\ rs' = [rs EXCEPT !.pc = IF Len(rs.dir) = 0 THEN "returned" ELSE "loop",
                        !.file = 1]
    /\ UNCHANGED <<poolVars, cmp, dl, cr, mn, tk, cv, tg, dc>>

\* Lines 164-169: one entry of os.listdir(output_dir); the identifier is
\* added, or the exception of get_file_identifier is logged.
ResolverStep ==
    /\ rs.pc = "loop"
    /\ LET id == get_file_identifier(rs.dir[rs.file]) IN
       rs' = [rs EXCEPT
                !.identifiers = IF id = Raised THEN rs.identifiers
                                ELSE rs.identifiers \cup {id},
                !.file = rs.file + 1,
                !.pc = IF rs.file < Len(rs.dir) THEN "loop" ELSE "returned"]
    /\ UNCHANGED <<poolVars, cmp, dl, cr, mn, tk, cv, tg, dc>>

InitResolver ==
    /\ PoolAtRest("get_existing_identifiers")
    /\ cmp = CmpIdle
    /\ dl = DlIdle
    /\ cr = CrIdle
    /\ mn = MnIdle
    /\ tk = TkIdle
    /\ cv = CvIdle
    /\ tg = TgIdle
    /\ dc = DcIdle
    /\ \E d \in SeqsUpTo(ResolverFiles, MaxFiles) :
          rs = [pc |-> "call", dir |-> d, file |-> 0, identifiers |-> {}]

NextResolver ==
    \/ ResolverCall
    \/ ResolverStep

SpecResolver == InitResolver /\ [][NextResolver]_vars

----------------------------------------------------------------------------
(* audio_track_processing on one file (AudioTrackProcessing.py) *)

\* Calls of audio_track_processing on the same file in one behaviour.
MaxTagRuns == 2

\* Line 66: the frames deleted before the new ones are added.
OldTags == {"TDRC", "TPE1", "TENC", "TPUB", "TCOP", "APIC", "WOAR"}

\* Lines 76-102: the frames added.
NewTags == {"TDRC", "TPE1", "TENC", "APIC", "TPUB", "WOAR", "TCOP"}

\* The file named by track_information["Cover"]: an image, absent, a file
\* of another type, a file that cannot be opened.
Covers == {"image", "missing", "not_image", "unreadable"}

\* The base names the file is tagged under (it may be renamed between
\* two calls).
BaseNames == {"song", "renamed"}

\* The audio files: raw is the size of the audio data, frames the other
\* ID3 frames present.
TagFiles ==
    { [header |-> h, tit3 |-> t, frames |-> fr, raw |-> 7] :
        h \in BOOLEAN, t \in {<<>>, <<"old">>}, fr \in {{}, {"TPE1", "TALB"}} }
    \ { f \in [header : {FALSE}, tit3 : {<<>>, <<"old">>},
               frames : {{}, {"TPE1", "TALB"}}, raw : {7}] :
          f.tit3 # <<>> \/ f.frames # {} }

\* The file as the identity resolver sees it: the tag takes room in it.
OnDisk(f) ==
    [header |-> f.header, tit3 |-> f.tit3,
     size |-> f.raw + Cardinality(f.frames) + Len(f.tit3)]

\* Lines 44-59 with a cover that is no readable image.
CoverAcceptedUnlessMissing(c) == c # "missing"

\* Lines 44-59: guess_mime and open raise FileNotFoundError for a cover
\* that is absent and another exception for one that cannot be read;
\* is_image is false for a file of another type.
CoverAccepted(c) == c = "image"

\* Line 70 without the test.
NeedsSourceAlways(a) == TRUE

\* Line 70: not audio_file.getall("TIT3").
NeedsSource(a) == Len(a.tit3) = 0

\* Lines 31-33: the call.
TagCall ==
    /\ tg.pc = "call"
    /\ tg' = [tg EXCEPT !.pc = "load", !.before = tg.disk]
    /\ UNCHANGED <<poolVars, cmp, dl, cr, mn, tk, cv, rs, dc>>

\* Lines 36-40: ID3(input_file) raises for a file without a header.
TagLoad ==
    /\ tg.pc = "load"
    /\ tg' = IF tg.disk.header
             THEN [tg EXCEPT !.pc = "cover", !.mem = tg.disk]
             ELSE [tg EXCEPT !.pc = "returned"]
    /\ UNCHANGED <<poolVars, cmp, dl, cr, mn, tk, cv, rs, dc>>

\* Lines 42-59: the cover is read, or the function returns.
TagCover ==
    /\ tg.pc = "cover"
    /\ tg' = [tg EXCEPT !.pc = IF CoverAccepted(tg.cover) THEN "delete"
                               ELSE "returned"]
    /\ UNCHANGED <<poolVars, cmp, dl, cr, mn, tk, cv, rs, dc>>

\* Lines 66-67.
TagDelete ==
    /\ tg.pc = "delete"
    /\ tg' = [tg EXCEPT !.pc = "source",
                        !.mem.frames = tg.mem.frames \ OldTags]
    /\ UNCHANGED <<poolVars, cmp, dl, cr, mn, tk, cv, rs, dc>>

\* Lines 70-73: the source name is set from the base name of the file.
TagSource ==
    /\ tg.pc = "source"
    /\ tg' = [tg EXCEPT !.pc = "add",
                        !.mem.tit3 = IF NeedsSource(tg.mem) THEN <<tg.name>>
                                     ELSE tg.mem.tit3]
    /\ UNCHANGED <<poolVars, cmp, dl, cr, mn, tk, cv, rs, dc>>

\* Lines 76-102.
TagAdd ==
    /\ tg.pc = "add"
    /\ tg' = [tg EXCEPT !.pc = "save",
                        !.mem.frames = tg.mem.frames \cup NewTags]
    /\ UNCHANGED <<poolVars, cmp, dl, cr, mn, tk, cv, rs, dc>>

\* Lines 105-110: the save writes the file, or its failure is logged.
TagSave ==
    /\ tg.pc = "save"
    /\ \E saved \in BOOLEAN :
          tg' = [tg EXCEPT !.pc = "returned",
                           !.disk = IF saved THEN tg.mem ELSE tg.disk,
                           !.saves = IF saved THEN tg.saves + 1 ELSE tg.saves]
    /\ UNCHANGED <<poolVars, cmp, dl, cr, mn, tk, cv, rs, dc>>

\* The next call on the same file, under its current base name.
TagAgain ==
    /\ tg.pc = "returned"
    /\ tg.runs < MaxTagRuns
    /\ \E n \in BaseNames, c \in Covers :
          tg' = [tg EXCEPT !.pc = "call", !.name = n, !.cover = c,
                           !.before = tg.disk, !.runs = tg.runs + 1]
    /\ UNCHANGED <<poolVars, cmp, dl, cr, mn, tk, cv, rs, dc>>

InitTagging ==
    /\ PoolAtRest("audio_track_processing")
    /\ cmp = CmpIdle
    /\ dl = DlIdle
    /\ cr = CrIdle
    /\ mn = MnIdle
    /\ tk = TkIdle
    /\ cv = CvIdle
    /\ rs = RsIdle
    /\ dc = DcIdle
    /\ \E f \in TagFiles, n \in BaseNames, c \in Covers :
          tg = [pc |-> "call", name |-> n, cover |-> c, disk |-> f,
                mem |-> f, before |-> f, runs |-> 1, saves |-> 0]

NextTagging ==
    \/ TagCall
    \/ TagLoad
    \/ TagCover
    \/ TagDelete
    \/ TagSource
    \/ TagAdd
    \/ TagSave
    \/ TagAgain

SpecTagging == InitTagging /\ [][NextTagging]_vars

----------------------------------------------------------------------------
(* data_classification (DataProcessing.py); a text is the sequence of its
   characters *)

\* Line 93: the characters removed from a title.
InvalidCharactersButSlash == {"\\", ":", "*", "?", "\"", "<", ">", "|"}

InvalidCharacters == {"\\", "/", ":", "*", "?", "\"", "<", ">", "|"}

\* Line 92: the title of an item that has none (the text "未知标题",
\* written here as one character).
DefaultTitle == <<"u">>

NoTitle == <<"no title">>

\* Lines 92-96: the title without its invalid characters.
RECURSIVE FilterTitle(_)
FilterTitle(title) ==
    IF Len(title) = 0 THEN <<>>
    ELSE IF Head(title) \in InvalidCharacters THEN FilterTitle(Tail(title))
    ELSE <<Head(title)>> \o FilterTitle(Tail(title))

media_title(media) ==
    FilterTitle(IF media.title = NoTitle THEN DefaultTitle ELSE media.title)

\* The items of the catalog: bv_id absent ("") or present, title absent or
\* a text of up to two characters.
MediaItems ==
    [bv_id : {"", "BV1", "BV2"},
     title : {NoTitle} \cup SeqsUpTo({"a", "/"}, 2)]

\* The music directory: files without a header, with a header and no TIT3
\* frame, with the TIT3 text "a".
MusicListings ==
    { <<>>,
      << [header |-> TRUE, tit3 |-> <<"a">>] >>,
      << [header |-> FALSE, tit3 |-> <<>>],
         [header |-> TRUE, tit3 |-> <<>>],
         [header |-> TRUE, tit3 |-> <<"a">>] >> }

\* Lines 43-55: no data, no music directory, no media list.
ClassifyCall ==
    /\ dc.pc = "call"
    /\ dc' = [dc EXCEPT !.pc = IF ~dc.dirValid \/ Len(dc.media) = 0
                               THEN "returned"
                               ELSE IF Len(dc.dir) = 0 THEN "media"
                               ELSE "tags",
                        !.n = 1]
    /\ UNCHANGED <<poolVars, cmp, dl, cr, mn, tk, cv, rs, tg>>

\* Lines 69-81: the TIT3 text of one file of the music directory; a file
\* without header or without TIT3 frame is passed over.
ClassifyFileTag ==
    /\ dc.pc = "tags"
    /\ LET f == dc.dir[dc.n] IN
       dc' = [dc EXCEPT
                !.file_tag = IF f.header /\ Len(f.tit3) > 0
                             THEN dc.file_tag \cup {f.tit3}
                             ELSE dc.file_tag,
                !.n = IF dc.n < Len(dc.dir) THEN dc.n + 1 ELSE 1,
                !.pc = IF dc.n < Len(dc.dir) THEN "tags" ELSE "media"]
    /\ UNCHANGED <<poolVars, cmp, dl, cr, mn, tk, cv, rs, tg>>

\* Lines 83-109: one item of the media list.
ClassifyMedia ==
    /\ dc.pc = "media"
    /\ LET media == dc.media[dc.n]
           title == media_title(media)
           skip  == media.bv_id = "" \/ title \in dc.file_tag
       IN
       dc' = [dc EXCEPT
                !.media_result =
                    IF skip THEN dc.media_result
                    ELSE [b \in DOMAIN dc.media_result \cup {media.bv_id} |->
                            IF b = media.bv_id THEN title
                            ELSE dc.media_result[b]],
                !.n = dc.n + 1,
                !.pc = IF dc.n < Len(dc.media) THEN "media" ELSE "returned"]
    /\ UNCHANGED <<poolVars, cmp, dl, cr, mn, tk, cv, rs, tg>>

InitClassify ==
    /\ PoolAtRest("data_classification")
    /\ cmp = CmpIdle
    /\ dl = DlIdle
    /\ cr = CrIdle
    /\ mn = MnIdle
    /\ tk = TkIdle
    /\ cv = CvIdle
    /\ rs = RsIdle
    /\ tg = TgIdle
    /\ \E md \in SeqsUpTo(MediaItems, MaxItems), d \in MusicListings,
          v \in BOOLEAN :
          dc = [pc |-> "call", media |-> md, dir |-> d, dirValid |-> v,
                n |-> 0, file_tag |-> {}, media_result |-> <<>>]

NextClassify ==
    \/ ClassifyCall
    \/ ClassifyFileTag
    \/ ClassifyMedia

SpecClassify == InitClassify /\ [][NextClassify]_vars

----------------------------------------------------------------------------
(* Properties *)

Range(q) == { q[i] : i \in 1..Len(q) }

InWith == {"scratch", "downloaded", "converted", "tagged", "raising"}

\* Files of earlier runs are listed under names no input file has.
EarlierNames == {0}

\* C1: in one run of concurrent_compression, of the input files that share
\* a content identifier at most one is submitted to the pool.
C1_OnePerIdentifier ==
    call = "compression" =>
        \A a \in Submitted, b \in Submitted :
            a # b => get_file_identifier(inputDir[a])
                     # get_file_identifier(inputDir[b])

\* C2: an input file whose identifier equals that of a file the output
\* directory held when the run started is never submitted and never run.
C2_ExistingNeverSubmitted ==
    call = "compression" =>
        \A t \in 1..Len(inputDir) :
            (\E n \in DOMAIN outputDir \cap EarlierNames :
                 get_file_identifier(outputDir[n])
                 = get_file_identifier(inputDir[t]))
            => /\ t \notin Submitted
               /\ tpc[t] \in {"pending", "skipped"}

C2_Witness ==
    /\ call = "compression"
    /\ pcMain = "returned"
    /\ result = "True"
    /\ \E t \in 1..Len(inputDir), u \in 1..Len(inputDir) :
          /\ tpc[t] = "skipped"
          /\ ~inputDir[t].header
          /\ outputDir[0].tit3 = <<IntToStr(inputDir[t].size)>>
          /\ tpc[u] = "done"

\* An acquisition failed: the download exhausted its retries, or the
\* conversion failed.
AcquisitionFailed(t) ==
    tout[t].dl = "exhausted" \/ tout[t].conv \in {"failed", "raised"}

\* C3: when k of the N descriptors fail acquisition, the pool's failed
\* count is k (it returns failure whenever k > 0) and the output directory
\* gains exactly N - k files.
C3_FailedCountsFailures ==
    (call = "process" /\ pcMain = "returned" /\ Len(futures) > 0) =>
        LET k == Cardinality({ t \in Submitted : AcquisitionFailed(t) }) IN
        /\ failed = k
        /\ result = PyBool(k = 0)
        /\ Cardinality(musicDir) = Len(futures) - k

\* C4: every file whose compression fails is counted as a failure, so
\* concurrent_compression returns success only if every submitted file was
\* compressed successfully.
C4_SuccessMeansAllCompressed ==
    (call = "compression" /\ pcMain = "returned" /\ result = "True") =>
        \A t \in Submitted : tpc[t] = "done" /\ tout[t].res = "True"

C6_NoCancelReturnAfterAll ==
    /\ \A t \in Submitted : tpc[t] = "queued" <=> t \in Range(queue)
    /\ pcMain = "returned" => \A t \in Submitted : tpc[t] \in DonePcs

C6_Witness ==
    /\ call = "process"
    /\ cpu_count = 1
    /\ pcMain = "returned"
    /\ Len(futures) = 2
    /\ tpc[1] = "raised"
    /\ tpc[2] = "done"
    /\ tout[2].conv = "ok"

\* C7: compress with retry budget R >= 1 runs its attempts in order and
\* stops at the first successful one or after attempt R: R failed attempts
\* and False, or k attempts of which only the last succeeded and True.
C7_AttemptsInOrder ==
    (cmp.pc # "idle" /\ cmp.retry >= 1) =>
        /\ Len(cmp.attempts) <= cmp.retry
        /\ cmp.count <= cmp.retry
        /\ cmp.sessions <= cmp.count
        /\ \A i \in 1..(Len(cmp.attempts) - 1) : cmp.attempts[i] = "failed"
        /\ cmp.pc \notin {"call", "returned"} =>
               /\ Len(cmp.attempts) = cmp.count - 1
               /\ \A i \in 1..Len(cmp.attempts) : cmp.attempts[i] = "failed"
        /\ (cmp.pc = "returned" /\ cmp.input_is_file /\ cmp.output_is_dir) =>
               /\ Len(cmp.attempts) = cmp.count
               /\ cmp.result = "False" =>
                      /\ Len(cmp.attempts) = cmp.retry
                      /\ cmp.attempts[cmp.retry] = "failed"
               /\ cmp.result = "True" =>
                      cmp.attempts[cmp.count] = "ok"

C7_Witness ==
    /\ cmp.pc = "returned"
    /\ cmp.retry = 3
    /\ cmp.attempts = <<"failed", "ok">>
    /\ cmp.result = "True"
    /\ cmp.sessions = 2

\* C8: the output directory changes only in the copy step of an attempt in
\* which every stage before it passed; while no attempt has reached the
\* copy step the output directory is as it was.
C8_OutputOnlyAfterAllStages ==
    /\ [](cmp.pc # "idle" => (cmp.copies = 0 => cmp.outFile = cmp.outFile0))
    /\ [][cmp.pc # "idle" =>
            (cmp'.outFile # cmp.outFile =>
                /\ cmp.pc = "finalize"
                /\ StagesBefore("finalize") \subseteq cmp.passed)]_vars

C8_Witness ==
    /\ cmp.pc = "returned"
    /\ cmp.result = "False"
    /\ cmp.attempts = <<"failed", "failed", "failed">>
    /\ cmp.copies = 0
    /\ cmp.outFile = "absent"
    /\ "old.mp3" \in cmp.tempDir

\* C9: when every invocation of the download fails, download_video invokes
\* it exactly retry times and stops.
C9_ExactlyRetryInvocations ==
    dl.pc # "idle" =>
        /\ dl.retry >= 0 => dl.calls <= dl.retry
        /\ (dl.pc = "returned" /\ dl.output_valid /\ dl.last # "zero"
            /\ dl.retry >= 0) => dl.calls = dl.retry

C9_Witness ==
    /\ dl.pc = "returned"
    /\ dl.retry = 2
    /\ dl.calls = 2
    /\ dl.last = "TimeoutExpired"
    /\ dl.status = "exhausted"

\* C10: every pipeline task inside its with block owns exactly one scratch
\* directory, no other task's, and once process_video_download has exited
\* (normally or by an exception) that directory no longer exists.
C10_ScratchOwnedAndRemoved ==
    call = "process" =>
        /\ \A d \in ScratchNames :
              scratch[d] # 0 => tpc[scratch[d]] \in InWith
        /\ \A t \in Tasks :
              /\ tpc[t] \in InWith => Cardinality(ScratchOf(t)) = 1
              /\ tpc[t] \notin InWith => ScratchOf(t) = {}

C10_Witness ==
    /\ call = "process"
    /\ \E t \in Tasks, u \in Tasks :
          /\ tpc[t] = "raised"
          /\ tpc[u] = "downloaded"
          /\ tout[u].dl = "exhausted"
          /\ ScratchOf(t) = {}
          /\ ScratchOf(u) # {}

\* The waits w of attempts 1, 2, ... are min(base^n, cap): none exceeds the
\* cap and none is smaller than the one before it.
WaitsAsClaimed(w, base, cap) ==
    \A n \in 1..Len(w) :
        /\ w[n] = (IF base ^ n < cap THEN base ^ n ELSE cap)
        /\ w[n] <= cap
        /\ n > 1 => w[n - 1] <= w[n]

\* C11: the backoff wait after attempt n is non-decreasing in n and never
\* above its cap: min(5^n, 30) in compress, min(2^n, 5) in crawl_favorites
\* and in download_video.
C11_WaitsMonotoneCapped ==
    /\ cmp.pc # "idle" => WaitsAsClaimed(cmp.waits, 5, 30)
    /\ dl.pc # "idle" => WaitsAsClaimed(dl.waits, 2, 5)
    /\ cr.pc # "idle" => WaitsAsClaimed(cr.waits, 2, 5)

C11_Witness ==
    /\ cmp.pc = "returned"
    /\ cmp.result = "False"
    /\ cmp.waits = <<5, 25, 30>>

\* The step in which a failed attempt escalates the timeout table.
Escalation == cmp.pc = "except" /\ cmp'.pc = "finally"

\* C12 as stated: whatever the configured initial values, after each failed
\* attempt no timeout is smaller than before or above 300, and a timeout at
\* 300 stays there.
C12_TimeoutsNeverDecrease ==
    [][Escalation =>
          \A k \in TimeoutKeys :
              /\ cmp'.timeouts[k] >= cmp.timeouts[k]
              /\ cmp'.timeouts[k] <= 300
              /\ cmp.timeouts[k] = 300 => cmp'.timeouts[k] = 300]_vars

\* C12, amended: the same for every timeout configured between 0 and 300.
C12_TimeoutsNeverDecreaseWithinCap ==
    [][Escalation =>
          \A k \in TimeoutKeys :
              (0 <= cmp.timeouts0[k] /\ cmp.timeouts0[k] <= 300) =>
                  /\ cmp'.timeouts[k] >= cmp.timeouts[k]
                  /\ cmp'.timeouts[k] <= 300
                  /\ cmp.timeouts[k] = 300 => cmp'.timeouts[k] = 300]_vars

C12_Witness ==
    /\ cmp.pc = "returned"
    /\ Len(cmp.attempts) = 3
    /\ cmp.timeouts0 = [load_time |-> 5, compress_time |-> 20,
                        completion_time |-> 100]
    /\ cmp.timeouts = [load_time |-> 40, compress_time |-> 160,
                       completion_time |-> 300]

\* C13: between attempts and when compress has returned no session is live
\* and self.browser is None; inside an attempt at most the session of that
\* attempt is live; a quit() that raised has not ended the loop early.
C13_SessionClosedAfterAttempt ==
    cmp.pc # "idle" =>
        /\ cmp.live = (IF cmp.browser = "open" THEN 1 ELSE 0)
        /\ cmp.pc \in {"call", "init_browser", "returned"} =>
               /\ cmp.browser = "None"
               /\ cmp.live = 0
        /\ cmp.quitErrors <= Len(cmp.attempts)
        /\ (cmp.pc = "returned" /\ cmp.quitErrors > 0) =>
               /\ cmp.result \in {"True", "False"}
               /\ cmp.result = "False" => Len(cmp.attempts) = cmp.retry

C13_Witness ==
    /\ cmp.pc = "returned"
    /\ cmp.result = "True"
    /\ cmp.attempts = <<"failed", "failed", "ok">>
    /\ cmp.sessions = 2
    /\ cmp.quitErrors = 3
    /\ cmp.live = 0
    /\ cmp.browser = "None"

\* C14: a compression task that has built its compressor ends by returning
\* a value, never by an exception; what a task does raise (the constructor)
\* is counted by the as_completed loop, and concurrent_compression returns
\* its result all the same.
C14_NoEscapeFromCompressTask ==
    /\ [][call = "compression" =>
            \A t \in Tasks :
                tpc[t] = "constructed" =>
                    /\ tpc'[t] \in {"constructed", "done"}
                    /\ tpc'[t] = "done" => tout'[t].res \in {"True", "False"}
         ]_vars
    /\ []((call = "compression" /\ pcMain = "returned"
           /\ input_valid /\ output_valid) =>
             /\ collected = Submitted
             /\ failed = Cardinality({ t \in Tasks : tpc[t] = "raised" })
             /\ result = PyBool(failed = 0))

C14_Witness ==
    /\ call = "compression"
    /\ pcMain = "returned"
    /\ result = "False"
    /\ failed = 1
    /\ \E t \in Submitted, u \in Submitted :
          /\ tpc[t] = "raised"
          /\ tpc[u] = "done"
          /\ tout[u].res = "False"

\* C15: the file a successful compression left in the output directory
\* under the name of input file t has the identifier of that input file,
\* and a later run over the same directories does not submit t again (a
\* task still queued has written nothing in this run).
C15_CompressedIsRecognized ==
    call = "compression" =>
        \A t \in 1..Len(inputDir) :
            t \in DOMAIN outputDir =>
                /\ get_file_identifier(outputDir[t])
                   = get_file_identifier(inputDir[t])
                /\ tpc[t] # "queued"

\* C16: no two tasks of one pool run write the same file of the output
\* directory.
C16_WriteDisjoint ==
    \A t \in Submitted, u \in Submitted :
        (t # u /\ Wrote(t) /\ Wrote(u)) => OutputOf(t) # OutputOf(u)

\* C17: once KeyboardInterrupt has arrived in a pool run, no task that had
\* not started is started, and the run ends only when no task is executing.
C17_NoStartAfterInterrupt ==
    /\ [][pcMain = "interrupted" =>
            \A t \in Tasks :
                tpc[t] \in {"pending", "queued"} =>
                    tpc'[t] \in {"pending", "queued"}]_vars
    /\ [](pcMain = "stopped" => Running = {})

\* C17, amended: once KeyboardInterrupt has arrived no further task is
\* submitted; every task submitted before, executing or still queued, runs
\* to its end, and only then does the run end.
C17_SubmittedFinishAfterInterrupt ==
    /\ [][pcMain = "interrupted" =>
            /\ futures' = futures
            /\ idx' = idx
            /\ \A t \in Tasks : tpc[t] = "pending" => tpc'[t] = "pending"
         ]_vars
    /\ [](pcMain = "stopped" =>
            /\ Running = {}
            /\ queue = <<>>
            /\ \A t \in Submitted : tpc[t] \in DonePcs)

C17_Witness ==
    /\ call = "process"
    /\ pcMain = "stopped"
    /\ Len(url_list) = 2
    /\ futures = <<1>>
    /\ tpc[1] = "done"
    /\ tout[1].conv = "ok"
    /\ tpc[2] = "pending"

\* C18: every wait of a task ends by its timeout at the latest, so every
\* submitted task comes to its end even when an external tool never
\* responds.
C18_SubmittedTasksTerminate ==
    \A t \in Tasks : (tpc[t] = "queued") ~> (tpc[t] \in DonePcs)

\* C19: whatever the input directory lists, identifier resolution never
\* ends the scheduling loop of concurrent_compression: the loop looks at
\* every entry, and the function returns a result.
C19_ResolverNeverAborts ==
    call = "compression" =>
        /\ pcMain \notin {"aborted", "crashed"}
        /\ (pcMain \in {"collect", "returned"} /\ input_valid /\ output_valid)
               => idx = Len(inputDir) + 1

\* C20 as stated: a catalog fetch whose every attempt failed ends by
\* raising.
C20_ExhaustedFetchRaises ==
    (cr.pc # "idle" /\ cr.status = "exhausted") => cr.pc = "raised"

\* C20, amended: crawl_favorites never raises; a fetch whose every attempt
\* failed made retry requests and returns the empty dict, and a successful
\* fetch returns the response, which is not the empty dict even when its
\* media list is empty.
C20_ExhaustedFetchReturnsEmptyDict ==
    cr.pc # "idle" =>
        /\ cr.pc # "raised"
        /\ cr.status = "exhausted" =>
               /\ cr.pc = "returned"
               /\ cr.result = "{}"
               /\ cr.calls = cr.retry
               /\ cr.last # "code 0"
        /\ cr.status = "ok" =>
               /\ cr.pc = "returned"
               /\ cr.result \in {"response, no media", "response, media"}
               /\ cr.last = "code 0"

C20_Witness ==
    /\ cr.pc = "returned"
    /\ cr.status = "exhausted"
    /\ cr.retry = 3
    /\ cr.calls = 3
    /\ cr.waits = <<2, 4, 5>>
    /\ cr.last = "Timeout"
    /\ cr.result = "{}"

\* C21: in a run in which a required external tool is missing or the root
\* path is invalid, no acquisition or compression task is ever submitted.
C21_NoTaskWithoutToolsAndRoot ==
    (mn.pc # "idle" /\ (mn.present # Tools \/ ~mn.root_valid))
        => (mn.submitted = 0 /\ mn.pools = <<>>)

\* C22: when a compression attempt fails, its browser session is torn down
\* before the backoff wait begins: no session is open while the task sleeps
\* between attempts.
C22_NoSessionDuringWait ==
    [][(cmp.pc = "except" /\ Len(cmp'.waits) > Len(cmp.waits))
          => (cmp.browser = "None" /\ cmp.live = 0)]_vars

\* C23: when the download step of a pipeline has exhausted its retries, the
\* conversion and tagging steps are never invoked for that item.
C23_ExhaustedDownloadEndsPipeline ==
    \A t \in Tasks :
        tout[t].dl = "exhausted"
            => (tout[t].conv = "none" /\ tpc[t] \notin {"converted", "tagged"})

StageIndex(stage) == CHOOSE i \in 1..Len(StageOrder) : StageOrder[i] = stage

\* C24: within one compression attempt the stages run in the fixed order of
\* StageOrder; a stage is entered only if every earlier stage of the same
\* attempt succeeded, and the first failing stage ends the attempt with no
\* later stage executed.
C24_StagesInOrder ==
    [][/\ \A i \in 1..Len(StageOrder) :
             cmp.pc = StageOrder[i] =>
                /\ cmp.passed = StagesBefore(StageOrder[i])
                /\ cmp'.pc \in {"except",
                                IF i < Len(StageOrder) THEN StageOrder[i + 1]
                                ELSE "finally"}
                /\ cmp'.pc = "except" => cmp'.passed = cmp.passed
                /\ cmp'.pc # "except" =>
                      cmp'.passed = cmp.passed \cup {StageOrder[i]}
                /\ cmp'.count = cmp.count
       /\ cmp.pc = "except" => cmp'.pc = "finally"
       /\ cmp.pc = "finally" =>
             \/ cmp'.pc = "returned"
             \/ /\ cmp'.pc = "init_browser"
                /\ cmp'.count = cmp.count + 1
                /\ cmp'.passed = {}]_vars

C24_Witness ==
    /\ cmp.pc = "finally"
    /\ cmp.returning
    /\ cmp.count = 2
    /\ cmp.attempts = <<"failed">>
    /\ cmp.passed = Range(StageOrder)

\* C25: download retries and catalog-fetch retries keep their timeout within
\* the cap of the call site: no attempt of download_video runs with a
\* timeout above 120 seconds and no request of crawl_favorites with one
\* above 10 seconds.
C25_TimeoutWithinCallSiteCap ==
    /\ dl.pc = "run" => dl.timeout <= MaxDownloadTimeout
    /\ cr.pc = "request" => cr.timeout <= MaxCrawlTimeout

\* C26: compress returns True only if, in the successful attempt, an
\* artifact of the task's download directory was copied to the output
\* directory under the name of the input file; when the download has
\* finished and no artifact is found, the attempt counts as failed.
C26_TrueOnlyAfterCopy ==
    [][/\ (cmp.pc # "idle" /\ cmp'.pc # "idle" /\ cmp'.returning
                /\ ~cmp.returning)
             => /\ cmp.pc = "finalize"
                /\ downloaded_files(cmp.tempDir) # {}
                /\ cmp'.outFile = "copied"
                /\ cmp'.copies = cmp.copies + 1
       /\ (cmp.pc = "finalize" /\ downloaded_files(cmp.tempDir) = {})
             => (cmp'.pc = "except" /\ ~cmp'.returning
                    /\ cmp'.outFile = cmp.outFile)
       /\ (cmp.pc # "idle" /\ cmp'.pc # "idle" /\ cmp'.result = "True")
             => /\ cmp.returning
                /\ cmp'.outFile = "copied"
                /\ cmp'.attempts[Len(cmp'.attempts)] = "ok"]_vars

C26_Witness ==
    /\ cmp.pc = "returned"
    /\ cmp.result = "True"
    /\ cmp.outFile = "copied"
    /\ cmp.attempts = <<"failed", "ok">>
    /\ cmp.outFile0 = "absent"

LiveOf(k, t) == { s \in k.sessions : s.by = t }

SessionsOwned(k, pcs) ==
    /\ Cardinality(k.sessions) <= 3
    /\ \A t \in Tasks :
          /\ Cardinality(LiveOf(k, t)) <= 1
          /\ LiveOf(k, t) # {} => pcs[t] = "constructed"
          /\ k.self[t].browser # NoBrowser =>
                /\ k.self[t].browser.by = t
                /\ k.self[t].browser \in k.sessions

\* C27: each compression task holds at most one live browser session at any
\* moment, opens a new one only after its previous one was closed, and uses
\* only sessions it created; at most 3 sessions are live at any time.
C27_OneSessionPerTask ==
    [][/\ SessionsOwned(tk, tpc)
       /\ SessionsOwned(tk', tpc')
       /\ \A s \in tk'.sessions \ tk.sessions :
             /\ LiveOf(tk, s.by) = {}
             /\ tk.self[s.by].browser = NoBrowser
             /\ tk'.self[s.by].browser = s]_vars

C27_Witness ==
    /\ Cardinality(tk.sessions) = 3
    /\ Len(queue) > 0
    /\ \E s \in tk.sessions : s.n = 2

\* C28: the timeout table of a compression task starts from the configured
\* defaults and is private to the task: the escalation after a failed
\* attempt of one task changes neither the table any other task reads nor
\* the table of the shared configuration.
C28_TimeoutTablePrivate ==
    [][/\ tk'.heap[ConfigDict] = tk.heap[ConfigDict]
       /\ \A t \in Tasks :
             /\ (tpc[t] = "queued" /\ tpc'[t] = "constructed")
                   => Seen(tk', t) = ConfiguredTimeouts
             /\ (tpc[t] = "constructed" /\ Seen(tk', t) # Seen(tk, t))
                   => /\ tk'.self[t].count # tk.self[t].count
                         \/ tpc'[t] # tpc[t]
                      /\ \A u \in Tasks \ {t} :
                            tpc[u] = "constructed"
                                => Seen(tk', u) = Seen(tk, u)]_vars

C28_Witness ==
    \E t \in Tasks, u \in Tasks :
        /\ tpc[t] = "constructed"
        /\ tpc[u] = "constructed"
        /\ tk.self[t].count = 2
        /\ tk.self[u].count = 1
        /\ t < u
        /\ Seen(tk, t) = [key \in TimeoutKeys |->
                             Escalate(ConfiguredTimeouts[key])]
        /\ Seen(tk, u) = ConfiguredTimeouts
        /\ futures[Len(futures)] # u
        /\ tpc[futures[Len(futures)]] = "queued"

\* C29: no in-memory object handed to the tasks of a pool is written by
\* more than one task; in particular the track_information mapping passed
\* to every acquisition task is assigned into by at most one of them.
C29_MappingWrittenByOneTask == Cardinality(writers) <= 1

\* C30: the conversion step processes every artifact of the scratch
\* directory: when download_processing returns, each artifact has been
\* converted or has exhausted its conversion retries, and every converted
\* artifact has been removed from the scratch directory.
C30_EveryArtifactProcessed ==
    (cv.pc = "returned" /\ cv.input_valid /\ cv.output_valid)
        => \A f \in 1..cv.listed :
              /\ cv.status[f] \in {"converted", "exhausted"}
              /\ cv.status[f] = "converted" => f \notin cv.files

\* The decimal numerals of the file sizes of ResolverFiles.
DecimalString(n) == CASE n = 7 -> "7" [] n = 12 -> "12"

\* The identifier as the claim states it.
IdentifierOf(f) ==
    IF f.header /\ Len(f.tit3) > 0 THEN f.tit3[1] ELSE DecimalString(f.size)

\* C31: get_file_identifier returns the TIT3 text of a file that has one
\* and otherwise the decimal string of its size; get_existing_identifiers
\* returns exactly the set of these identifiers over the files of the
\* directory, whatever the order of the listing.
C31_IdentifiersOfDirectory ==
    /\ rs.pc \in {"loop", "returned"} =>
          /\ \A k \in 1..Len(rs.dir) :
                get_file_identifier(rs.dir[k]) = IdentifierOf(rs.dir[k])
          /\ rs.identifiers =
                { IdentifierOf(rs.dir[k]) : k \in 1..(rs.file - 1) }
    /\ rs.pc = "returned" =>
          /\ rs.identifiers = { IdentifierOf(f) : f \in Range(rs.dir) }
          /\ rs.identifiers =
                get_existing_identifiers([n \in 1..Len(rs.dir) |-> rs.dir[n]])

C31_Witness ==
    /\ rs.pc = "returned"
    /\ Len(rs.dir) = 4
    /\ rs.dir[1] = [header |-> TRUE, tit3 |-> <<"b", "a">>, size |-> 7]
    /\ rs.dir[2] = [header |-> FALSE, tit3 |-> <<>>, size |-> 12]
    /\ rs.dir[3] = [header |-> TRUE, tit3 |-> <<>>, size |-> 7]
    /\ rs.dir[4] = [header |-> TRUE, tit3 |-> <<"7">>, size |-> 12]
    /\ rs.identifiers = {"b", "12", "7"}

\* C32: when the cover is missing, unreadable or not an image,
\* audio_track_processing returns with the tags of the file as they were
\* when it was called.
C32_BadCoverLeavesTags ==
    /\ tg.pc # "idle" /\ tg.cover # "image" => tg.disk = tg.before
    /\ tg.pc \in {"delete", "source", "add", "save"} => tg.cover = "image"

C32_Witness ==
    /\ tg.pc = "returned"
    /\ tg.cover = "not_image"
    /\ tg.disk.header
    /\ tg.disk.tit3 = <<>>
    /\ tg.disk.frames = {"TPE1", "TALB"}
    /\ tg.runs = 1

\* C37: the TIT3 frame of a file is written only when the file has none,
\* and then with the base name of the file; a file that has one keeps it,
\* and with it its identifier, through every later call under any name.
C37_SourceNameWrittenOnce ==
    [][/\ Len(tg.disk.tit3) > 0 =>
             /\ tg'.disk.tit3 = tg.disk.tit3
             /\ get_file_identifier(OnDisk(tg'.disk)) =
                   get_file_identifier(OnDisk(tg.disk))
       /\ tg'.disk.tit3 # tg.disk.tit3 => tg'.disk.tit3 = <<tg.name>>]_vars

C37_Witness ==
    /\ tg.pc = "returned"
    /\ tg.runs = 2
    /\ tg.saves = 2
    /\ tg.name = "renamed"
    /\ tg.before.tit3 = <<"song">>
    /\ tg.disk.tit3 = <<"song">>

\* C33: the acquisition pool run on an empty list of descriptors reports
\* success, with no task submitted and none failed.
C33_EmptyListSucceeds ==
    (/\ call = "process"
     /\ pcMain = "returned"
     /\ output_valid
     /\ Len(url_list) = 0
     /\ Len(name_list) = 0)
        => (result = "True" /\ failed = 0 /\ Submitted = {})

\* The characters the claim names.
NamedCharacters == {"\\", "/", ":", "*", "?", "\"", "<", ">", "|"}

\* The item as data_classification reads its title: without the named
\* characters.
Cleaned(media) ==
    SelectSeq(IF media.title = NoTitle THEN DefaultTitle ELSE media.title,
              LAMBDA c : c \notin NamedCharacters)

\* The TIT3 texts of the files of the music directory.
TagsOf(dir) ==
    { dir[k].tit3 : k \in { j \in 1..Len(dir) :
                               dir[j].header /\ Len(dir[j].tit3) > 0 } }

\* C34: data_classification returns no descriptor for an item without id
\* nor for an item whose title, cleaned, is the TIT3 text of a file of the
\* music directory, and one for every other item; every descriptor
\* returned has a non-empty id and a title without \ / : * ? " < > |.
C34_ClassificationFilters ==
    (dc.pc = "returned" /\ dc.dirValid) =>
        /\ "" \notin DOMAIN dc.media_result
        /\ \A b \in DOMAIN dc.media_result :
              /\ \A i \in 1..Len(dc.media_result[b]) :
                    dc.media_result[b][i] \notin NamedCharacters
              /\ dc.media_result[b] \notin TagsOf(dc.dir)
              /\ \E k \in 1..Len(dc.media) :
                    /\ dc.media[k].bv_id = b
                    /\ Cleaned(dc.media[k]) = dc.media_result[b]
        /\ \A k \in 1..Len(dc.media) :
              (dc.media[k].bv_id # "" /\ Cleaned(dc.media[k]) \notin TagsOf(dc.dir))
                  => dc.media[k].bv_id \in DOMAIN dc.media_result

C34_Witness ==
    /\ dc.pc = "returned"
    /\ dc.dirValid
    /\ Len(dc.dir) = 3
    /\ dc.media = << [bv_id |-> "BV1", title |-> <<"/", "a">>],
                     [bv_id |-> "BV2", title |-> <<"a", "a">>] >>
    /\ DOMAIN dc.media_result = {"BV2"}

\* C35: in a run of main the compression pool is entered only when no
\* acquisition pipeline is in flight, and a run that ends has entered it,
\* also when there was nothing to download.
C35_CompressionAfterAcquisition ==
    /\ (mn.pc # "idle" /\ mn.inflight > 0) =>
           (mn.pc = "process_wait" /\ Range(mn.pools) = {"concurrent_process"})
    /\ (mn.pc # "idle" /\ "concurrent_compression" \in Range(mn.pools)) =>
           mn.inflight = 0
    /\ mn.pc = "returned" =>
           mn.pools[Len(mn.pools)] = "concurrent_compression"

C35_Witness ==
    /\ mn.pc = "returned"
    /\ mn.process_data = 2
    /\ mn.pools = <<"concurrent_process", "concurrent_compression">>
    /\ mn.submitted = 4

\* A run with nothing to download that has entered the compression pool.
C35_WitnessEmptyCatalog ==
    /\ mn.pc = "returned"
    /\ mn.process_data = 0
    /\ mn.pools = <<"concurrent_compression">>

\* C36: the attempts of one compress call do not depend on what earlier
\* attempts left in the download directory: the download-start check
\* passes only when the download of this attempt has started, the
\* download-complete check passes when the download of this attempt is
\* finished, and the file copied is the one this attempt downloaded.
C36_AttemptsIndependent ==
    [][/\ (cmp.pc = "await_start" /\ cmp'.pc = "await_complete") =>
             cmp'.tempDir \cap {"new.crdownload", "new.mp3"} # {}
       /\ (/\ cmp.pc = "await_complete"
           /\ "new.mp3" \in cmp'.tempDir
           /\ "new.crdownload" \notin cmp'.tempDir) =>
             cmp'.pc = "finalize"
       /\ (cmp.pc = "finalize" /\ cmp'.copies > cmp.copies) =>
             "new.mp3" \in cmp.tempDir]_vars

PermittedAttempts == 1..5

\* C39: whatever the retry parameter, a retrying operation whose arguments
\* are otherwise valid has made at least one and at most five attempts
\* when it returns.
C39_AttemptsWithinRange ==
    /\ (cmp.pc = "returned" /\ cmp.input_is_file /\ cmp.output_is_dir)
          => Len(cmp.attempts) \in PermittedAttempts
    /\ (dl.pc = "returned" /\ dl.output_valid)
          => dl.calls \in PermittedAttempts
    /\ (cr.pc = "returned" /\ cr.fid)
          => (cr.calls \in PermittedAttempts /\ cr.retry \in PermittedAttempts)

====
